---------------------------- MODULE Spec2Model ----------------------------
(***************************************************************************)
(* State-machine model of the signal-processing core of AccessMate:       *)
(* BlinkDetector, HeadTracker, the AccessMate store (headTracking.ts),    *)
(* GestureRecognizer and EyeGestureDetector (gestureCommands.ts),         *)
(* countFingers (fingerCounting.ts), FatigueDetector and SleepDetector    *)
(* (fatigueDetection.ts) and the hand pipeline of AccessMateApp.tsx.      *)
(*                                                                         *)
(* Numbers.  Landmark coordinates are integers in units of 1/10000 of the *)
(* frame; ratios (EAR, thresholds, head position) are integers in units   *)
(* of 1/1000; times are milliseconds as returned by Date.now().           *)
(* null is NULL for numbers and "null" for gestures.                      *)
(***************************************************************************)
EXTENDS Integers, Sequences, FiniteSets, TLC

VARIABLES
    now,      \* the clock read by Date.now()
    blink,    \* BlinkDetector fields
    gr,       \* GestureRecognizer fields
    hand,     \* the hand frame under classification (pure-function runs)
    store,    \* useAccessMateStore state
    sleep,    \* SleepDetector fields
    fat,      \* FatigueDetector fields
    eye,      \* EyeGestureDetector fields
    mouth,    \* MouthGestureDetector fields
    tracker,  \* HeadTracker fields
    focus,    \* the component a behaviour drives
    op,       \* the operation performed last
    ret,      \* its return value
    obs       \* history of calls and results, used to state the properties

vars == <<now, blink, gr, hand, store, sleep, fat, eye, mouth, tracker, focus, op, ret, obs>>

NULL == 0 - 1

\* Division rounding toward zero, for a divisor above 0.
QuotPos(a, b) == IF a >= 0 THEN a \div b ELSE 0 - ((0 - a) \div b)

\* Division rounding toward zero, for a divisor other than 0.
Quot(a, b) == IF b > 0 THEN QuotPos(a, b) ELSE 0 - QuotPos(a, 0 - b)

Abs(x) == IF x < 0 THEN 0 - x ELSE x

Min(a, b) == IF a < b THEN a ELSE b

Max(a, b) == IF a > b THEN a ELSE b

RECURSIVE SumSeq(_)
SumSeq(s) == IF s = <<>> THEN 0 ELSE Head(s) + SumSeq(Tail(s))

\* JavaScript truthiness of a nullable timestamp: null and 0 are falsy.
Truthy(t) == t # NULL /\ t # 0

(***************************************************************************)
(* Geometry and the eye-aspect ratio (headTracking.ts 186-214).           *)
(***************************************************************************)
Pt(x, y) == [x |-> x, y |-> y]

RECURSIVE ISqrtFrom(_, _)
ISqrtFrom(n, r) == IF (r + 1) * (r + 1) > n THEN r ELSE ISqrtFrom(n, r + 1)

\* Math.sqrt on the integer grid: exact for the axis-aligned distances of the
\* landmark fixtures, rounded down otherwise.
Sqrt(n) == ISqrtFrom(n, 0)

euclideanDistance(p1, p2) == LET dx == p1.x - p2.x
                                 dy == p1.y - p2.y
                             IN  IF dx = 0 THEN Abs(dy)
                                 ELSE IF dy = 0 THEN Abs(dx)
                                 ELSE Sqrt(dx * dx + dy * dy)

LEFT_EYE_EAR_POINTS == [p1 |-> 33, p2 |-> 160, p3 |-> 158, p4 |-> 133, p5 |-> 153, p6 |-> 144]

RIGHT_EYE_EAR_POINTS == [p1 |-> 362, p2 |-> 385, p3 |-> 387, p4 |-> 263, p5 |-> 373, p6 |-> 380]

\* EAR in thousandths; 0 when the horizontal eye-corner distance is 0.
calculateEAR(landmarks, eyePoints) ==
    LET vertical1 == euclideanDistance(landmarks[eyePoints.p2], landmarks[eyePoints.p6])
        vertical2 == euclideanDistance(landmarks[eyePoints.p3], landmarks[eyePoints.p5])
        horizontal == euclideanDistance(landmarks[eyePoints.p1], landmarks[eyePoints.p4])
    IN  IF horizontal = 0 THEN 0
        ELSE ((vertical1 + vertical2) * 1000) \div (2 * horizontal)

(***************************************************************************)
(* Face landmark fixtures.  A landmark set is a function on the indices   *)
(* the detectors read.  Each eye is 200 units wide and its lids are a     *)
(* units above and below the corner line, so that EAR = a/100 exactly.    *)
(***************************************************************************)
FaceIdx == {1, 4, 10, 13, 14, 33, 61, 133, 144, 152, 153, 158, 160, 263, 291, 362, 373, 380, 385, 387}

Face(aL, aR, nose) ==
    [i \in FaceIdx |->
       CASE i = 33  -> Pt(3000, 4000)
         [] i = 133 -> Pt(3200, 4000)
         [] i = 160 -> Pt(3050, 4000 - aL)
         [] i = 144 -> Pt(3050, 4000 + aL)
         [] i = 158 -> Pt(3150, 4000 - aL)
         [] i = 153 -> Pt(3150, 4000 + aL)
         [] i = 362 -> Pt(6800, 4000)
         [] i = 263 -> Pt(7000, 4000)
         [] i = 385 -> Pt(6850, 4000 - aR)
         [] i = 380 -> Pt(6850, 4000 + aR)
         [] i = 387 -> Pt(6950, 4000 - aR)
         [] i = 373 -> Pt(6950, 4000 + aR)
         [] i = 1   -> nose
         [] i = 4   -> nose
         [] i = 10  -> Pt(5000, 2000)
         [] i = 152 -> Pt(5000, 8000)
         [] i = 13  -> Pt(5000, 6500)
         [] i = 14  -> Pt(5000, 6600)
         [] i = 61  -> Pt(4500, 6550)
         [] OTHER   -> Pt(5500, 6550)]

\* Lid openings: EAR 0.10 (closed), 0.21 (exactly the threshold), 0.30 (open).
Lids == {10, 21, 30}

NoseCentre == Pt(5000, 5000)

BlinkFaces == {Face(aL, aR, NoseCentre) : aL \in Lids, aR \in Lids}

(***************************************************************************)
(* BlinkDetector (headTracking.ts 223-266).                               *)
(***************************************************************************)
EAR_THRESHOLD == 210

CONSEC_FRAMES == 2

MaxFrames == 4

MaxBlinks == 3

BlinkThresholds == {210, 250}

BlinkInit == [frameCounter |-> 0, blinkCount |-> 0, EAR_THRESHOLD |-> EAR_THRESHOLD]

BlinkResult(b, landmarks) ==
    LET leftEAR == calculateEAR(landmarks, LEFT_EYE_EAR_POINTS)
        rightEAR == calculateEAR(landmarks, RIGHT_EYE_EAR_POINTS)
        avgEAR == (leftEAR + rightEAR) \div 2
    IN  [isBlinking |-> avgEAR < b.EAR_THRESHOLD, leftEAR |-> leftEAR,
         rightEAR |-> rightEAR, avgEAR |-> avgEAR]

BlinkCompleted_strict(frameCounter) == frameCounter > CONSEC_FRAMES

\* line 241: the closed run was long enough to count as a blink
BlinkCompleted(frameCounter) == frameCounter >= CONSEC_FRAMES

BlinkAfterDetect(b, isBlinking) ==
    IF isBlinking
    THEN [b EXCEPT !.frameCounter = @ + 1]
    ELSE [b EXCEPT !.blinkCount = IF BlinkCompleted(b.frameCounter) THEN @ + 1 ELSE @,
                   !.frameCounter = 0]

BlinkDetector_detect(landmarks) ==
    \E r \in {BlinkResult(blink, landmarks)} :
        /\ r.isBlinking => blink.frameCounter < MaxFrames
        /\ ~r.isBlinking => blink.blinkCount < MaxBlinks
        /\ blink' = BlinkAfterDetect(blink, r.isBlinking)
        /\ ret' = r
        /\ op' = "BlinkDetector.detect"
        /\ obs' = [obs EXCEPT !.closedRun = IF r.isBlinking THEN @ + 1 ELSE 0,
                              !.endedRun = IF r.isBlinking THEN 0 ELSE obs.closedRun]
        /\ UNCHANGED <<now, gr, hand, store, sleep, fat, eye, tracker, mouth, focus>>

BlinkDetector_resetBlinkCount ==
    /\ blink' = [blink EXCEPT !.blinkCount = 0]
    /\ ret' = "void"
    /\ op' = "BlinkDetector.resetBlinkCount"
    /\ UNCHANGED <<now, gr, hand, store, sleep, fat, eye, tracker, mouth, focus, obs>>

BlinkDetector_setThreshold(threshold) ==
    /\ blink' = [blink EXCEPT !.EAR_THRESHOLD = threshold]
    /\ ret' = "void"
    /\ op' = "BlinkDetector.setThreshold"
    /\ UNCHANGED <<now, gr, hand, store, sleep, fat, eye, tracker, mouth, focus, obs>>

BlinkNext ==
    \/ \E f \in BlinkFaces : BlinkDetector_detect(f)
    \/ BlinkDetector_resetBlinkCount
    \/ \E t \in BlinkThresholds : BlinkDetector_setThreshold(t)

(***************************************************************************)
(* countFingers (fingerCounting.ts 46-172).  A hand is a function on the  *)
(* 21 landmark indices 0..20.                                             *)
(***************************************************************************)
FINGER_TIP_IDS == [THUMB |-> 4, INDEX |-> 8, MIDDLE |-> 12, RING |-> 16, PINKY |-> 20]

FINGER_PIP_IDS == [THUMB |-> 2, INDEX |-> 6, MIDDLE |-> 10, RING |-> 14, PINKY |-> 18]

WRIST == 0

detectGesture(states) ==
    LET thumb == states.thumb
        index == states.index
        middle == states.middle
        ring == states.ring
        pinky == states.pinky
    IN  IF ~thumb /\ index /\ middle /\ ~ring /\ ~pinky THEN "Peace Sign"
        ELSE IF thumb /\ ~index /\ ~middle /\ ~ring /\ ~pinky THEN "Thumbs Up"
        ELSE IF thumb /\ index /\ ~middle /\ ~ring /\ ~pinky THEN "Point"
        ELSE IF ~thumb /\ index /\ ~middle /\ ~ring /\ pinky THEN "Rock Sign"
        ELSE IF thumb /\ ~index /\ ~middle /\ ~ring /\ pinky THEN "Call Me"
        ELSE IF ~thumb /\ ~index /\ ~middle /\ ~ring /\ ~pinky THEN "Fist"
        ELSE IF thumb /\ index /\ middle /\ ring /\ pinky THEN "Open Hand"
        ELSE IF ~thumb /\ index /\ middle /\ ring /\ ~pinky THEN "Three"
        ELSE IF ~thumb /\ index /\ middle /\ ring /\ pinky THEN "Four"
        ELSE "null"

ThumbRaised_sameSide(landmarks, isRightHand) == landmarks[FINGER_TIP_IDS.THUMB].x < landmarks[3].x

\* lines 60-78: the thumb tip is beside the IP joint, on the side the handedness gives
ThumbRaised(landmarks, isRightHand) ==
    IF isRightHand
    THEN landmarks[FINGER_TIP_IDS.THUMB].x < landmarks[3].x
    ELSE landmarks[FINGER_TIP_IDS.THUMB].x > landmarks[3].x

\* lines 84-109: a finger is raised when its tip is above its PIP joint
FingerRaised(landmarks, tip, pip) == landmarks[tip].y < landmarks[pip].y

countFingers(landmarks, isRightHand) ==
    LET thumb == ThumbRaised(landmarks, isRightHand)
        index == FingerRaised(landmarks, FINGER_TIP_IDS.INDEX, FINGER_PIP_IDS.INDEX)
        middle == FingerRaised(landmarks, FINGER_TIP_IDS.MIDDLE, FINGER_PIP_IDS.MIDDLE)
        ring == FingerRaised(landmarks, FINGER_TIP_IDS.RING, FINGER_PIP_IDS.RING)
        pinky == FingerRaised(landmarks, FINGER_TIP_IDS.PINKY, FINGER_PIP_IDS.PINKY)
        inc(raised) == IF raised THEN 1 ELSE 0
        push(raised, name) == IF raised THEN <<name>> ELSE <<>>
        fingerStates == [thumb |-> thumb, index |-> index, middle |-> middle,
                         ring |-> ring, pinky |-> pinky]
    IN  [count |-> inc(thumb) + inc(index) + inc(middle) + inc(ring) + inc(pinky),
         fingers |-> push(thumb, "Thumb") \o push(index, "Index") \o push(middle, "Middle")
                     \o push(ring, "Ring") \o push(pinky, "Pinky"),
         fingerStates |-> fingerStates,
         gesture |-> detectGesture(fingerStates)]

(***************************************************************************)
(* GestureRecognizer.recognize (gestureCommands.ts 59-139).  confidence   *)
(* is in thousandths.                                                      *)
(***************************************************************************)
\* lines 64-131: exact finger pattern first, finger count second
GestureTable(count, fs, thumbAboveWrist) ==
    LET thumb == fs.thumb
        index == fs.index
        middle == fs.middle
        ring == fs.ring
        pinky == fs.pinky
    IN  IF count = 0 THEN [gesture |-> "fist", confidence |-> 950]
        ELSE IF thumb /\ ~index /\ ~middle /\ ~ring /\ ~pinky
             THEN IF thumbAboveWrist THEN [gesture |-> "thumbsUp", confidence |-> 900]
                  ELSE [gesture |-> "thumbsDown", confidence |-> 850]
        ELSE IF ~thumb /\ index /\ ~middle /\ ~ring /\ ~pinky
             THEN [gesture |-> "pointUp", confidence |-> 900]
        ELSE IF ~thumb /\ index /\ middle /\ ~ring /\ ~pinky
             THEN [gesture |-> "peaceSign", confidence |-> 900]
        ELSE IF ~thumb /\ index /\ middle /\ ring /\ ~pinky
             THEN [gesture |-> "threeFingers", confidence |-> 850]
        ELSE IF ~thumb /\ index /\ middle /\ ring /\ pinky
             THEN [gesture |-> "fourFingers", confidence |-> 850]
        ELSE IF thumb /\ index /\ middle /\ ring /\ pinky
             THEN [gesture |-> "openPalm", confidence |-> 950]
        ELSE IF ~thumb /\ index /\ ~middle /\ ~ring /\ pinky
             THEN [gesture |-> "rockSign", confidence |-> 850]
        ELSE IF thumb /\ ~index /\ ~middle /\ ~ring /\ pinky
             THEN [gesture |-> "callMe", confidence |-> 850]
        ELSE IF count = 1 THEN [gesture |-> "oneFingers", confidence |-> 800]
        ELSE IF count = 2 THEN [gesture |-> "twoFingers", confidence |-> 800]
        ELSE IF count = 3 THEN [gesture |-> "threeFingers", confidence |-> 800]
        ELSE IF count = 4 THEN [gesture |-> "fourFingers", confidence |-> 800]
        ELSE IF count = 5 THEN [gesture |-> "fiveFingers", confidence |-> 800]
        ELSE [gesture |-> "null", confidence |-> 800]

recognize(landmarks, isRightHand) ==
    LET fingerResult == countFingers(landmarks, isRightHand)
        g == GestureTable(fingerResult.count, fingerResult.fingerStates,
                          landmarks[4].y < landmarks[WRIST].y)
    IN  [gesture |-> g.gesture, confidence |-> g.confidence,
         fingerCount |-> fingerResult.count, fingerStates |-> fingerResult.fingerStates]

(***************************************************************************)
(* Hand fixtures.  Only the coordinates the classifier reads vary: the x  *)
(* of the thumb tip (4) and IP joint (3), the y of the thumb tip and the  *)
(* wrist (0), and the y of each finger tip and PIP joint.                 *)
(***************************************************************************)
HandOf(c) ==
    [i \in 0..20 |->
       CASE i = 0  -> Pt(5000, c.wristY)
         [] i = 3  -> Pt(c.ipX, 5000)
         [] i = 4  -> Pt(c.thumbX, c.thumbY)
         [] i = 8  -> Pt(5000, c.tipY[1])
         [] i = 6  -> Pt(5000, c.pipY[1])
         [] i = 12 -> Pt(5000, c.tipY[2])
         [] i = 10 -> Pt(5000, c.pipY[2])
         [] i = 16 -> Pt(5000, c.tipY[3])
         [] i = 14 -> Pt(5000, c.pipY[3])
         [] i = 20 -> Pt(5000, c.tipY[4])
         [] i = 18 -> Pt(5000, c.pipY[4])
         [] OTHER  -> Pt(5000, 5000)]

Coord == {4000, 5000}

HandCoords == [thumbX : Coord, ipX : Coord, thumbY : Coord, wristY : Coord, tipY : [1..4 -> Coord], pipY : [1..4 -> Coord]]

\* Canonical right hands: every finger raised, and none raised.
OpenHandFixture == HandOf([thumbX |-> 4000, ipX |-> 5000, thumbY |-> 4000, wristY |-> 5000, tipY |-> [k \in 1..4 |-> 4000], pipY |-> [k \in 1..4 |-> 5000]])

FistFixture == HandOf([thumbX |-> 5000, ipX |-> 4000, thumbY |-> 5000, wristY |-> 5000, tipY |-> [k \in 1..4 |-> 5000], pipY |-> [k \in 1..4 |-> 4000]])

CallCountFingers ==
    /\ ret' = countFingers(hand.landmarks, hand.isRightHand)
    /\ op' = "countFingers"
    /\ UNCHANGED <<now, blink, gr, hand, store, sleep, fat, eye, tracker, mouth, focus, obs>>

CallRecognize ==
    /\ ret' = recognize(hand.landmarks, hand.isRightHand)
    /\ op' = "GestureRecognizer.recognize"
    /\ UNCHANGED <<now, blink, gr, hand, store, sleep, fat, eye, tracker, mouth, focus, obs>>

FingersNext == CallCountFingers \/ CallRecognize

(***************************************************************************)
(* GestureRecognizer hold detection (gestureCommands.ts 51-57, 142-194).  *)
(***************************************************************************)
MIN_HOLD_TIME == 300

GESTURE_COOLDOWN == 500

GRInit == [lastGesture |-> "null", gestureStartTime |-> NULL, gestureHoldTime |-> 0, MIN_HOLD_TIME |-> MIN_HOLD_TIME, lastGestureTime |-> 0]

InCooldown_never(g, t) == FALSE

\* line 147: the poll falls inside the cooldown after the last fire
InCooldown(g, t) == t - g.lastGestureTime < GESTURE_COOLDOWN

\* A new gesture takes over the running hold timer of the gesture before it.
HoldUpdated_carried(g, gesture, t) ==
    IF g.gestureStartTime # NULL
    THEN [g EXCEPT !.lastGesture = gesture, !.gestureHoldTime = t - g.gestureStartTime]
    ELSE [g EXCEPT !.lastGesture = gesture, !.gestureStartTime = t, !.gestureHoldTime = 0]

\* lines 151-161: accumulate the hold of the same gesture, or restart on a new one
HoldUpdated(g, gesture, t) ==
    IF gesture = g.lastGesture
    THEN IF g.gestureStartTime # NULL
         THEN [g EXCEPT !.gestureHoldTime = t - g.gestureStartTime]
         ELSE g
    ELSE [g EXCEPT !.lastGesture = gesture, !.gestureStartTime = t, !.gestureHoldTime = 0]

\* lines 144-173: the recognizer after the poll, and the value the poll returns
HeldGesture(g, gesture, t) ==
    IF InCooldown(g, t)
    THEN [gr |-> g, ret |-> "null"]
    ELSE LET g1 == HoldUpdated(g, gesture, t)
         IN  IF g1.gestureHoldTime >= g1.MIN_HOLD_TIME /\ gesture # "null"
             THEN [gr |-> [g1 EXCEPT !.lastGestureTime = t, !.gestureStartTime = NULL,
                                     !.gestureHoldTime = 0, !.lastGesture = "null"],
                   ret |-> g1.lastGesture]
             ELSE [gr |-> g1, ret |-> "null"]

\* What a caller has seen of the polls: the run of identical classifications
\* in progress, when it began, the fires in it, and the last two fire times.
ObsAfterPoll(o, gesture, fired, t) ==
    LET newRun == gesture # o.runGesture
    IN  [o EXCEPT !.runGesture = gesture,
                  !.runStart = IF newRun THEN t ELSE @,
                  !.runClean = IF newRun THEN TRUE ELSE @,
                  !.firesInRun = (IF newRun THEN 0 ELSE @) + (IF fired THEN 1 ELSE 0),
                  !.prevFire = IF fired THEN o.lastFire ELSE @,
                  !.lastFire = IF fired THEN t ELSE @]

GestureRecognizer_detectHeldGesture(landmarks, isRightHand) ==
    \E result \in {recognize(landmarks, isRightHand)} :
      \E h \in {HeldGesture(gr, result.gesture, now)} :
        /\ gr' = h.gr
        /\ ret' = h.ret
        /\ op' = "GestureRecognizer.detectHeldGesture"
        /\ obs' = [ObsAfterPoll(obs, result.gesture, h.ret # "null", now) EXCEPT
                     !.heldBefore = IF result.gesture # obs.runGesture
                                    THEN gr.gestureStartTime # NULL /\ gr.gestureStartTime < now
                                    ELSE @]
        /\ UNCHANGED <<now, blink, hand, store, sleep, fat, eye, tracker, mouth, focus>>

\* The value NaN of a JavaScript number.
NaN == 0 - 999999

\* Math.min(1, a / b) in thousandths, for a >= 0: 0 / 0 is NaN and Math.min
\* keeps it; a / 0 is Infinity for a > 0; the quotient is negative for b < 0.
MinOneQuotient(a, b) ==
    IF b = 0 THEN (IF a = 0 THEN NaN ELSE 1000)
    ELSE Min(1000, Quot(a * 1000, b))

\* lines 176-179, in thousandths
getHoldProgress(g) ==
    IF g.gestureStartTime = NULL THEN 0 ELSE MinOneQuotient(g.gestureHoldTime, g.MIN_HOLD_TIME)

GestureRecognizer_getHoldProgress ==
    /\ ret' = getHoldProgress(gr)
    /\ op' = "GestureRecognizer.getHoldProgress"
    /\ UNCHANGED <<now, blink, gr, hand, store, sleep, fat, eye, tracker, mouth, focus, obs>>

GestureRecognizer_setHoldTime(ms) ==
    /\ gr' = [gr EXCEPT !.MIN_HOLD_TIME = ms]
    /\ ret' = "void"
    /\ op' = "GestureRecognizer.setHoldTime"
    /\ UNCHANGED <<now, blink, hand, store, sleep, fat, eye, tracker, mouth, focus, obs>>

GestureRecognizer_reset ==
    /\ gr' = [gr EXCEPT !.lastGesture = "null", !.gestureStartTime = NULL, !.gestureHoldTime = 0]
    /\ ret' = "void"
    /\ op' = "GestureRecognizer.reset"
    /\ obs' = [obs EXCEPT !.runClean = FALSE]
    /\ UNCHANGED <<now, blink, hand, store, sleep, fat, eye, tracker, mouth, focus>>

\* Time passing between two calls: Date.now() grows by d, up to the horizon.
Tick(d, horizon) ==
    /\ now + d <= horizon
    /\ now' = now + d
    /\ op' = "tick"
    /\ ret' = "void"
    /\ UNCHANGED <<blink, gr, hand, store, sleep, fat, eye, tracker, mouth, focus, obs>>

\* Date.now() is milliseconds since 1970: far above every interval compared with it.
StartTime == 2 * GESTURE_COOLDOWN

MaxGestureTicks == 14

GestureHorizon == StartTime + MaxGestureTicks * 100

GestureDeltas == {100, 300}

HoldTimes == {200, 300}

\* The hands shown to the hold recognizer: an open right hand and a fist.
HoldHands == {OpenHandFixture, FistFixture}

\* Hold times passed to setHoldTime at run time: none at all, and the default.
SetterHoldTimes == {0, MIN_HOLD_TIME}

MaxSetterTicks == 4

SetterHorizon == StartTime + MaxSetterTicks * 100

\* The recognizer polled while its hold time is being set.
SetterNext ==
    \/ Tick(100, SetterHorizon)
    \/ \E h \in HoldHands : GestureRecognizer_detectHeldGesture(h, TRUE)
    \/ GestureRecognizer_getHoldProgress
    \/ \E ms \in SetterHoldTimes : GestureRecognizer_setHoldTime(ms)

GestureNext ==
    \/ \E d \in GestureDeltas : Tick(d, GestureHorizon)
    \/ \E h \in HoldHands : GestureRecognizer_detectHeldGesture(h, TRUE)
    \/ GestureRecognizer_getHoldProgress
    \/ \E ms \in HoldTimes : GestureRecognizer_setHoldTime(ms)
    \/ GestureRecognizer_reset

(***************************************************************************)
(* useAppStore (headTracking.ts 395-527): the session fields and the      *)
(* metrics a session entry is built from.  Scores are whole numbers.      *)
(***************************************************************************)
SESSION_HISTORY_LIMIT == 100

AppInit == [sessionHistory |-> << >>, sessionStartTime |-> NULL, blinkCount |-> 0, sleepDuration |-> 0]

\* array.slice(-n): the last n elements
LastEntries(h, n) == IF Len(h) <= n THEN h ELSE SubSeq(h, Len(h) - n + 1, Len(h))

\* lines 505-527.  The score before rounding is kept in thousandths.  The blink
\* rate is blinkCount / (elapsed / 60000): Infinity when no time has elapsed,
\* NaN (below and above nothing) when there are no blinks either.
calculateEngagementScore(a, t) ==
    LET sleepCut == IF a.sleepDuration > 0 THEN Min(50000, a.sleepDuration) ELSE 0
        elapsed == IF Truthy(a.sessionStartTime) THEN t - a.sessionStartTime ELSE 60000
        low == elapsed # 0 /\ a.blinkCount * 60000 < 10 * elapsed
        high == IF elapsed = 0 THEN a.blinkCount > 0 ELSE a.blinkCount * 60000 > 30 * elapsed
        score == 100000 - sleepCut - (IF low \/ high THEN 10000 ELSE 0)
    IN  Max(0, Min(100, (score + 500) \div 1000))

\* lines 456-463
useAppStore_addSessionEntry(a, entry, t) ==
    [a EXCEPT !.sessionHistory =
        LastEntries(Append(@, [blinkCount |-> entry.blinkCount, sleepDuration |-> entry.sleepDuration,
                               engagementScore |-> entry.engagementScore, timestamp |-> t]),
                    SESSION_HISTORY_LIMIT)]

\* line 467
useAppStore_startSession(a, t) == [a EXCEPT !.sessionStartTime = t]

\* endSession that leaves the session open.
useAppStore_endSession_keepStart(a, t) ==
    IF Truthy(a.sessionStartTime)
    THEN useAppStore_addSessionEntry(a, [blinkCount |-> a.blinkCount, sleepDuration |-> a.sleepDuration,
                                         engagementScore |-> calculateEngagementScore(a, t)], t)
    ELSE a

\* lines 469-485
useAppStore_endSession(a, t) ==
    IF Truthy(a.sessionStartTime)
    THEN [useAppStore_addSessionEntry(a, [blinkCount |-> a.blinkCount, sleepDuration |-> a.sleepDuration,
                                          engagementScore |-> calculateEngagementScore(a, t)], t)
            EXCEPT !.sessionStartTime = NULL]
    ELSE a

(***************************************************************************)
(* useAccessMateStore (headTracking.ts 826-982): the fields the hand      *)
(* pipeline and the statistics actions read and write.                    *)
(***************************************************************************)
StoreInit ==
    [isActive |-> FALSE, isPaused |-> FALSE, showKeyboard |-> FALSE,
     showQuickActions |-> FALSE, gesturesEnabled |-> TRUE,
     detection |-> [isHandDetected |-> FALSE, currentGesture |-> "null", fingerCount |-> 0],
     face |-> [isFaceDetected |-> FALSE, headX |-> 0, headY |-> 0, headTilt |-> 0,
               leftEyeOpen |-> TRUE, rightEyeOpen |-> TRUE, isMouthOpen |-> FALSE],
     cursor |-> [x |-> 500, y |-> 500, isClicking |-> FALSE, isDragging |-> FALSE],
     cursorMode |-> "head", clickMode |-> "wink", fatigueDetectionEnabled |-> TRUE,
     stats |-> [sessionStartTime |-> NULL, clickCount |-> 0, gestureCount |-> 0,
                totalUsageTime |-> 0, lastBreakTime |-> NULL],
     isCameraActive |-> FALSE, app |-> AppInit]

setActive(s, active) == [s EXCEPT !.isActive = active]

setCameraActive(s, active) == [s EXCEPT !.isCameraActive = active]

setPaused(s, paused) == [s EXCEPT !.isPaused = paused]

togglePause(s) == [s EXCEPT !.isPaused = ~@]

setShowKeyboard(s, show) == [s EXCEPT !.showKeyboard = show]

setShowQuickActions(s, show) == [s EXCEPT !.showQuickActions = show]

updateSettings(s, gesturesEnabled) == [s EXCEPT !.gesturesEnabled = gesturesEnabled]

updateDetection(s, detected, gesture, count) == [s EXCEPT !.detection = [isHandDetected |-> detected, currentGesture |-> gesture, fingerCount |-> count]]

incrementClickCount(s) == [s EXCEPT !.stats.clickCount = @ + 1]

\* lines 954-957
incrementGestureCount(s) == [s EXCEPT !.stats.gestureCount = @ + 1]

startSession(s, t) == [s EXCEPT !.stats.sessionStartTime = t]

\* endSession without the spread of state.stats: the other statistics are lost.
endSession_dropStats(s, t) ==
    IF Truthy(s.stats.sessionStartTime)
    THEN [s EXCEPT !.stats = [sessionStartTime |-> NULL, clickCount |-> 0, gestureCount |-> 0,
                              totalUsageTime |-> s.stats.totalUsageTime + (t - s.stats.sessionStartTime),
                              lastBreakTime |-> NULL]]
    ELSE s

\* lines 964-976
endSession(s, t) ==
    IF Truthy(s.stats.sessionStartTime)
    THEN [s EXCEPT !.stats.sessionStartTime = NULL,
                   !.stats.totalUsageTime = @ + (t - s.stats.sessionStartTime)]
    ELSE s

recordBreak(s, t) == [s EXCEPT !.stats.lastBreakTime = t]

MaxClicks == 1

StoreAction(name, s) ==
    /\ store' = s
    /\ op' = name
    /\ ret' = "void"
    /\ UNCHANGED <<now, blink, gr, hand, sleep, fat, eye, tracker, mouth, focus, obs>>

StoreNext ==
    \/ \E b \in BOOLEAN : StoreAction("setActive", setActive(store, b))
    \/ \E b \in BOOLEAN : StoreAction("setPaused", setPaused(store, b))
    \/ StoreAction("togglePause", togglePause(store))
    \/ \E b \in BOOLEAN : StoreAction("updateSettings", updateSettings(store, b))
    \/ store.stats.clickCount < MaxClicks /\ StoreAction("incrementClickCount", incrementClickCount(store))
    \/ /\ store.stats.sessionStartTime = NULL
       /\ store.stats.totalUsageTime = 0
       /\ StoreAction("startSession", startSession(store, now))
    \/ StoreAction("endSession", endSession(store, now))
    \/ store.stats.lastBreakTime = NULL /\ StoreAction("recordBreak", recordBreak(store, now))

(***************************************************************************)
(* AccessMateApp.handleHandResults (AccessMateApp.tsx 140-201).           *)
(* results is [present, landmarks, label].                                *)
(***************************************************************************)
\* lines 176-191: the command a fired gesture executes
GestureCommand(s, heldGesture) ==
    IF heldGesture = "openPalm" THEN togglePause(s)
    ELSE IF heldGesture = "callMe" THEN setShowKeyboard(s, ~s.showKeyboard)
    ELSE IF heldGesture = "rockSign" THEN setShowQuickActions(s, ~s.showQuickActions)
    ELSE IF heldGesture = "fist" THEN setShowQuickActions(setShowKeyboard(s, FALSE), FALSE)
    ELSE s

\* What a caller has seen of the hand frames: the gesture classified on every
\* gesture poll since it last came into view, and the time of the first of them.
Sighted(o, gesture, t) ==
    IF focus = "gap"
    THEN [o EXCEPT !.seenGesture = gesture,
                   !.seenSince = IF gesture = o.seenGesture /\ o.seenSince # NULL THEN @ ELSE t]
    ELSE o

\* A frame without a hand, or one whose gesture is not polled, ends the sighting.
Unsighted(o) ==
    IF focus = "gap" THEN [o EXCEPT !.seenGesture = "null", !.seenSince = NULL] ELSE o

handleHandResults(results) ==
    IF results.present
    THEN LET isRightHand == results.label = "Right"
             gestureResult == recognize(results.landmarks, isRightHand)
             s1 == updateDetection(store, TRUE, gestureResult.gesture, gestureResult.fingerCount)
         IN  IF store.isActive /\ ~store.isPaused /\ store.gesturesEnabled
             THEN LET h == HeldGesture(gr, gestureResult.gesture, now)
                  IN  /\ gr' = h.gr
                      /\ store' = IF h.ret # "null"
                                  THEN GestureCommand(incrementGestureCount(s1), h.ret)
                                  ELSE s1
                      /\ ret' = h.ret
                      /\ obs' = Sighted(ObsAfterPoll(obs, gestureResult.gesture, h.ret # "null", now),
                                      gestureResult.gesture, now)
             ELSE /\ store' = s1
                  /\ ret' = "null"
                  /\ obs' = Unsighted(obs)
                  /\ UNCHANGED gr
    ELSE /\ store' = updateDetection(store, FALSE, "null", 0)
         /\ ret' = "null"
         /\ obs' = Unsighted(obs)
         /\ UNCHANGED gr

HandFrame(results) ==
    /\ handleHandResults(results)
    /\ op' = "handleHandResults"
    /\ UNCHANGED <<now, blink, hand, sleep, fat, eye, tracker, mouth, focus>>

NoHand == [present |-> FALSE, landmarks |-> FistFixture, label |-> "Right"]

HandResults == {NoHand} \cup {[present |-> TRUE, landmarks |-> h, label |-> "Right"] : h \in HoldHands}

MaxHandTicks == 1

HandHorizon == StartTime + MaxHandTicks * MIN_HOLD_TIME

\* The hand pipeline with the store's own actions.
HandNext ==
    \/ Tick(MIN_HOLD_TIME, HandHorizon)
    \/ \E r \in HandResults : HandFrame(r)
    \/ StoreNext

(***************************************************************************)
(* SleepDetector (fatigueDetection.ts 406-539).  NOSE_TIP is landmark 1   *)
(* here.  Angles are in milliradians.                                     *)
(***************************************************************************)
EYE_CLOSED_THRESHOLD == 45

HEAD_DOWN_THRESHOLD == 30

PITCH_THRESHOLD == 250

\* Math.atan2(x, 1) for x in thousandths: x / (1 + 0.28125 x^2) inside [-1, 1],
\* pi/2 - atan(1/x) outside; monotone, within 5 milliradians of the arctangent.
AtanUnit(x) == (x * 1000000) \div (1000000 + (281 * x * x) \div 1000)

Atan(x) ==
    IF x > 1000 THEN 1571 - AtanUnit(1000000 \div x)
    ELSE IF x < 0 - 1000 THEN 0 - 1571 - AtanUnit(1000000 \div x)
    ELSE AtanUnit(x)

\* headTracking.ts 268-273
areEyesClosed(landmarks, threshold) ==
    LET leftEAR == calculateEAR(landmarks, LEFT_EYE_EAR_POINTS)
        rightEAR == calculateEAR(landmarks, RIGHT_EYE_EAR_POINTS)
    IN  (leftEAR + rightEAR) \div 2 < threshold

\* lines 472-486: the pitch of calculateHeadPose; faceHeight || 1 divides by
\* 1, which is 10000 landmark units
HeadPitch(landmarks) ==
    LET faceHeight == Abs(landmarks[10].y - landmarks[152].y)
        noseOffset == landmarks[1].y - landmarks[10].y
        normalizedPitch == Quot(noseOffset * 1000, IF faceHeight = 0 THEN 10000 ELSE faceHeight)
    IN  Atan(normalizedPitch)

SleepInit == [eyeClosedFrames |-> 0, headDownFrames |-> 0, sleepStartTime |-> NULL, totalSleepDuration |-> 0]

IsSleeping_noCombined(eyeClosedFrames, headDownFrames, eyesClosed) ==
    \/ eyeClosedFrames >= EYE_CLOSED_THRESHOLD
    \/ eyesClosed /\ headDownFrames >= HEAD_DOWN_THRESHOLD

\* lines 439-443
IsSleeping(eyeClosedFrames, headDownFrames, eyesClosed) ==
    LET eyesFactor == eyeClosedFrames >= EYE_CLOSED_THRESHOLD
        headFactor == headDownFrames >= HEAD_DOWN_THRESHOLD
        combinedFactor == eyesClosed /\ 2 * headDownFrames >= HEAD_DOWN_THRESHOLD
    IN  eyesFactor \/ (eyesClosed /\ headFactor) \/ combinedFactor

SleepTracked_overwrite(s, isSleeping, currentTime) ==
    IF isSleeping
    THEN IF s.sleepStartTime = NULL THEN [s EXCEPT !.sleepStartTime = currentTime] ELSE s
    ELSE IF s.sleepStartTime # NULL
         THEN [s EXCEPT !.totalSleepDuration = currentTime - s.sleepStartTime,
                        !.sleepStartTime = NULL]
         ELSE s

\* lines 446-455: open an episode on the first sleeping frame, close it and add
\* its length on the first frame that is not
SleepTracked(s, isSleeping, currentTime) ==
    IF isSleeping
    THEN IF s.sleepStartTime = NULL THEN [s EXCEPT !.sleepStartTime = currentTime] ELSE s
    ELSE IF s.sleepStartTime # NULL
         THEN [s EXCEPT !.totalSleepDuration = @ + (currentTime - s.sleepStartTime),
                        !.sleepStartTime = NULL]
         ELSE s

\* A counter that starts again from 0 on a frame without its condition.
FramesCounted_reset(frames, condition) == IF condition THEN frames + 1 ELSE 0

\* lines 425-436: a frame counter after a frame with or without its condition
FramesCounted(frames, condition) == IF condition THEN frames + 1 ELSE Max(0, frames - 2)

\* lines 417-470: the detector after the frame, and the result returned
SleepDetect(s, landmarks, currentTime) ==
    LET eyesClosed == areEyesClosed(landmarks, EAR_THRESHOLD)
        pitch == HeadPitch(landmarks)
        isHeadDown == pitch > PITCH_THRESHOLD
        e == FramesCounted(s.eyeClosedFrames, eyesClosed)
        h == FramesCounted(s.headDownFrames, isHeadDown)
        isSleeping == IsSleeping(e, h, eyesClosed)
        s1 == [s EXCEPT !.eyeClosedFrames = e, !.headDownFrames = h]
        eyeScore == Min(100000, (e * 60000) \div EYE_CLOSED_THRESHOLD)
        headScore == Min(40000, (h * 40000) \div HEAD_DOWN_THRESHOLD)
        sleepScore == Min(100000, eyeScore + headScore)
    IN  [sleep |-> SleepTracked(s1, isSleeping, currentTime),
         ret |-> [isSleeping |-> isSleeping, sleepScore |-> (sleepScore + 500) \div 1000,
                  eyeClosedDuration |-> e, headDownDuration |-> h,
                  isHeadDown |-> isHeadDown, headPitch |-> pitch]]

\* lines 501-506
getCurrentSleepDuration(s, t) ==
    IF s.sleepStartTime # NULL
    THEN s.totalSleepDuration + (t - s.sleepStartTime)
    ELSE s.totalSleepDuration

MaxEyeClosedFrames == 46

MaxHeadDownFrames == 31

SleepDetector_detect(landmarks) ==
    \E d \in {SleepDetect(sleep, landmarks, now)} :
        /\ d.sleep.eyeClosedFrames <= MaxEyeClosedFrames
        /\ d.sleep.headDownFrames <= MaxHeadDownFrames
        /\ sleep' = d.sleep
        /\ ret' = d.ret
        /\ op' = "SleepDetector.detect"
        /\ obs' = [obs EXCEPT !.sleeping = d.ret.isSleeping,
                              !.eyesClosed = areEyesClosed(landmarks, EAR_THRESHOLD),
                              !.flatFace = landmarks[10].y = landmarks[152].y,
                              !.sleepOpen = IF d.ret.isSleeping
                                            THEN (IF obs.sleeping THEN @ ELSE now)
                                            ELSE NULL,
                              !.sleepDone = IF ~d.ret.isSleeping /\ obs.sleeping
                                            THEN @ + (now - obs.sleepOpen) ELSE @]
        /\ UNCHANGED <<now, blink, gr, hand, store, fat, eye, tracker, mouth, focus>>

SleepDetector_getCurrentSleepDuration ==
    /\ ret' = getCurrentSleepDuration(sleep, now)
    /\ op' = "SleepDetector.getCurrentSleepDuration"
    /\ UNCHANGED <<now, blink, gr, hand, store, sleep, fat, eye, tracker, mouth, focus, obs>>

SleepDetector_resetSleepDuration ==
    /\ sleep' = [sleep EXCEPT !.totalSleepDuration = 0, !.sleepStartTime = NULL]
    /\ ret' = "void"
    /\ op' = "SleepDetector.resetSleepDuration"
    /\ obs' = [obs EXCEPT !.sleeping = FALSE, !.sleepOpen = NULL, !.sleepDone = 0]
    /\ UNCHANGED <<now, blink, gr, hand, store, fat, eye, tracker, mouth, focus>>

SleepDetector_reset ==
    /\ sleep' = SleepInit
    /\ ret' = "void"
    /\ op' = "SleepDetector.reset"
    /\ obs' = [obs EXCEPT !.sleeping = FALSE, !.sleepOpen = NULL, !.sleepDone = 0]
    /\ UNCHANGED <<now, blink, gr, hand, store, fat, eye, tracker, mouth, focus>>

\* Faces for the sleep detector: eyes closed (EAR 0.10) or open (0.30), the nose
\* a sixth of the face height below the forehead (head up) or half of it (down).
NoseUp == Pt(5000, 3000)

SleepFaces == {Face(a, a, n) : a \in {10, 30}, n \in {NoseUp, NoseCentre}}

\* A face of no height: the forehead and the chin on one line, the nose 0.4
\* of the frame below it.
FlatFace == [Face(30, 30, Pt(5000, 6000)) EXCEPT ![152] = Pt(5000, 2000)]

\* The detector fed faces of no height among ordinary ones.
DegenerateNext ==
    \/ \E f \in {FlatFace, Face(30, 30, NoseUp), Face(10, 10, NoseUp)} : SleepDetector_detect(f)
    \/ SleepDetector_reset

MaxSleepTicks == 3

SleepHorizon == StartTime + MaxSleepTicks * 1000

SleepNext ==
    \/ Tick(1000, SleepHorizon)
    \/ \E f \in SleepFaces : SleepDetector_detect(f)
    \/ SleepDetector_getCurrentSleepDuration
    \/ SleepDetector_resetSleepDuration
    \/ SleepDetector_reset

(***************************************************************************)
(* EyeGestureDetector (gestureCommands.ts 327-425).  Raw EAR values are in *)
(* thousandths; a smoothed EAR is the mean of at most HISTORY_SIZE raw     *)
(* values and is kept in 1/60000, so that the mean over 1..5 samples is    *)
(* exact.                                                                  *)
(***************************************************************************)
HISTORY_SIZE == 5

WINK_THRESHOLD == 180

OPEN_THRESHOLD == 220

WINK_DIFF_THRESHOLD == 80

MIN_WINK_DURATION == 100

MAX_WINK_DURATION == 500

EyeInit ==
    [leftEARHistory |-> <<>>, rightEARHistory |-> <<>>,
     leftWinkStartTime |-> NULL, rightWinkStartTime |-> NULL,
     WINK_THRESHOLD |-> WINK_THRESHOLD, OPEN_THRESHOLD |-> OPEN_THRESHOLD]

\* lines 345-349: push, then shift when longer than HISTORY_SIZE
Pushed(history, value) ==
    LET h == Append(history, value)
    IN  IF Len(h) > HISTORY_SIZE THEN Tail(h) ELSE h

\* No smoothing: the newest raw value alone.
SmoothedEAR_newest(history) == 60 * history[Len(history)]

\* lines 352-353: reduce((a, b) => a + b, 0) / length
SmoothedEAR(history) == (60 * SumSeq(history)) \div Len(history)

\* A wink reported for a closed eye whatever the other eye does.
EyeDetect_oneEyeOnly(e, landmarks) ==
    LET lh == Pushed(e.leftEARHistory, calculateEAR(landmarks, LEFT_EYE_EAR_POINTS))
        rh == Pushed(e.rightEARHistory, calculateEAR(landmarks, RIGHT_EYE_EAR_POINTS))
        avgLeftEAR == SmoothedEAR(lh)
        avgRightEAR == SmoothedEAR(rh)
        leftOpen == avgLeftEAR > 60 * e.OPEN_THRESHOLD
        rightOpen == avgRightEAR > 60 * e.OPEN_THRESHOLD
        earDiff == Abs(avgLeftEAR - avgRightEAR)
    IN  [eye |-> [e EXCEPT !.leftEARHistory = lh, !.rightEARHistory = rh],
         state |-> [leftOpen |-> leftOpen, rightOpen |-> rightOpen,
                    leftEAR |-> avgLeftEAR, rightEAR |-> avgRightEAR,
                    isWinkingLeft |-> ~leftOpen /\ earDiff > 60 * WINK_DIFF_THRESHOLD,
                    isWinkingRight |-> ~rightOpen /\ earDiff > 60 * WINK_DIFF_THRESHOLD,
                    isBothClosed |-> /\ avgLeftEAR < 60 * e.WINK_THRESHOLD
                                     /\ avgRightEAR < 60 * e.WINK_THRESHOLD]]

\* lines 340-376: the detector after the call and the EyeState it returns
EyeDetect(e, landmarks) ==
    LET lh == Pushed(e.leftEARHistory, calculateEAR(landmarks, LEFT_EYE_EAR_POINTS))
        rh == Pushed(e.rightEARHistory, calculateEAR(landmarks, RIGHT_EYE_EAR_POINTS))
        avgLeftEAR == SmoothedEAR(lh)
        avgRightEAR == SmoothedEAR(rh)
        leftOpen == avgLeftEAR > 60 * e.OPEN_THRESHOLD
        rightOpen == avgRightEAR > 60 * e.OPEN_THRESHOLD
        earDiff == Abs(avgLeftEAR - avgRightEAR)
    IN  [eye |-> [e EXCEPT !.leftEARHistory = lh, !.rightEARHistory = rh],
         state |-> [leftOpen |-> leftOpen, rightOpen |-> rightOpen,
                    leftEAR |-> avgLeftEAR, rightEAR |-> avgRightEAR,
                    isWinkingLeft |-> ~leftOpen /\ rightOpen /\ earDiff > 60 * WINK_DIFF_THRESHOLD,
                    isWinkingRight |-> ~rightOpen /\ leftOpen /\ earDiff > 60 * WINK_DIFF_THRESHOLD,
                    isBothClosed |-> /\ avgLeftEAR < 60 * e.WINK_THRESHOLD
                                     /\ avgRightEAR < 60 * e.WINK_THRESHOLD]]

ValidWink(duration) == duration >= MIN_WINK_DURATION /\ duration <= MAX_WINK_DURATION

\* lines 379-419: the left block returns before the right block is reached
IntentionalWink(e, landmarks, t) ==
    LET d == EyeDetect(e, landmarks)
        e0 == d.eye
        e1 == IF d.state.isWinkingLeft
              THEN [e0 EXCEPT !.leftWinkStartTime = IF @ = NULL THEN t ELSE @]
              ELSE [e0 EXCEPT !.leftWinkStartTime = NULL]
        leftFires == /\ ~d.state.isWinkingLeft
                     /\ e0.leftWinkStartTime # NULL
                     /\ ValidWink(t - e0.leftWinkStartTime)
        e2 == IF d.state.isWinkingRight
              THEN [e1 EXCEPT !.rightWinkStartTime = IF @ = NULL THEN t ELSE @]
              ELSE [e1 EXCEPT !.rightWinkStartTime = NULL]
        rightFires == /\ ~d.state.isWinkingRight
                      /\ e1.rightWinkStartTime # NULL
                      /\ ValidWink(t - e1.rightWinkStartTime)
    IN  IF leftFires THEN [eye |-> e1, state |-> d.state, ret |-> "left"]
        ELSE IF rightFires THEN [eye |-> e2, state |-> d.state, ret |-> "right"]
        ELSE [eye |-> e2, state |-> d.state, ret |-> "null"]

\* The raw EAR pairs handed to the detector, newest last, and the EyeState of
\* the newest frame.
ObsAfterEyeFrame(o, landmarks, state) ==
    [o EXCEPT !.rawL = Pushed(@, calculateEAR(landmarks, LEFT_EYE_EAR_POINTS)),
              !.rawR = Pushed(@, calculateEAR(landmarks, RIGHT_EYE_EAR_POINTS)),
              !.eyeState = state]

EyeGestureDetector_detect(landmarks) ==
    /\ \E d \in {EyeDetect(eye, landmarks)} :
         /\ eye' = d.eye
         /\ ret' = d.state
         /\ obs' = ObsAfterEyeFrame(obs, landmarks, d.state)
    /\ op' = "EyeGestureDetector.detect"
    /\ UNCHANGED <<now, blink, gr, hand, store, sleep, fat, tracker, mouth, focus>>

\* The time of the first poll of the current run of polls on which a wink
\* condition held, NULL when it did not hold on the newest poll; recorded in
\* the behaviours that consist of wink polls only.
WinkSince(since, winking, t) ==
    IF focus # "wink" \/ ~winking THEN NULL ELSE IF since = NULL THEN t ELSE since

EyeGestureDetector_detectIntentionalWink(landmarks) ==
    /\ \E d \in {IntentionalWink(eye, landmarks, now)} :
         /\ eye' = d.eye
         /\ ret' = d.ret
         /\ obs' = [ObsAfterEyeFrame(obs, landmarks, d.state) EXCEPT
                      !.leftWinkSince = WinkSince(@, d.state.isWinkingLeft, now),
                      !.rightWinkSince = WinkSince(@, d.state.isWinkingRight, now)]
    /\ op' = "EyeGestureDetector.detectIntentionalWink"
    /\ UNCHANGED <<now, blink, gr, hand, store, sleep, fat, tracker, mouth, focus>>

\* lines 421-424
EyeGestureDetector_setThresholds(wink, open) ==
    /\ eye' = [eye EXCEPT !.WINK_THRESHOLD = wink, !.OPEN_THRESHOLD = open]
    /\ ret' = "void"
    /\ op' = "EyeGestureDetector.setThresholds"
    /\ UNCHANGED <<now, blink, gr, hand, store, sleep, fat, tracker, mouth, focus, obs>>

\* Both eyes open (EAR 0.30), or one of them closed (EAR 0.10).
EyeFaces == {Face(30, 30, NoseCentre), Face(10, 30, NoseCentre), Face(30, 10, NoseCentre)}

EyeThresholds == {<<WINK_THRESHOLD, OPEN_THRESHOLD>>, <<150, 250>>}

MaxEyeTicks == 6

EyeHorizon == StartTime + MaxEyeTicks * MIN_WINK_DURATION

EyeNext ==
    \/ \E d \in {MIN_WINK_DURATION, MAX_WINK_DURATION} : Tick(d, EyeHorizon)
    \/ \E f \in EyeFaces : EyeGestureDetector_detect(f)
    \/ \E f \in EyeFaces : EyeGestureDetector_detectIntentionalWink(f)
    \/ \E th \in EyeThresholds : EyeGestureDetector_setThresholds(th[1], th[2])

(***************************************************************************)
(* MouthGestureDetector (gestureCommands.ts 435-483).  An openness is the  *)
(* mouth height over the mouth width in thousandths; the smoothed openness *)
(* is kept in 1/60000 like the smoothed EAR.                               *)
(***************************************************************************)
MOUTH == [upperOuter |-> 13, lowerOuter |-> 14, left |-> 61, right |-> 291]

MouthInit == [opennessHistory |-> <<>>]

\* lines 446-450
MouthOpenness(landmarks) ==
    LET mouthHeight == euclideanDistance(landmarks[MOUTH.upperOuter], landmarks[MOUTH.lowerOuter])
        mouthWidth == euclideanDistance(landmarks[MOUTH.left], landmarks[MOUTH.right])
    IN  IF mouthWidth > 0 THEN (mouthHeight * 1000) \div mouthWidth ELSE 0

\* lines 440-482: the detector after the frame, and the state returned.
\* cornerHeights is four times the average corner height in landmark units
\* (1/10000); smileIntensity is in 1/400.
MouthDetect(m, landmarks) ==
    LET history == Pushed(m.opennessHistory, MouthOpenness(landmarks))
        avgOpenness == (60 * SumSeq(history)) \div Len(history)
        upperLip == landmarks[MOUTH.upperOuter]
        lowerLip == landmarks[MOUTH.lowerOuter]
        cornerHeights == 2 * (upperLip.y + lowerLip.y)
                         - 2 * landmarks[MOUTH.left].y - 2 * landmarks[MOUTH.right].y
    IN  [mouth |-> [m EXCEPT !.opennessHistory = history],
         ret |-> [isOpen |-> avgOpenness > 60 * 30,
                  openness |-> avgOpenness,
                  openRatio |-> Min(60000, 5 * avgOpenness),
                  isSmiling |-> cornerHeights > 4 * 50,
                  smileIntensity |-> Max(0, Min(400, cornerHeights))]]

MouthGestureDetector_detect(landmarks) ==
    /\ \E d \in {MouthDetect(mouth, landmarks)} :
         /\ mouth' = d.mouth
         /\ ret' = d.ret
    /\ op' = "MouthGestureDetector.detect"
    /\ UNCHANGED <<now, blink, gr, hand, store, sleep, fat, eye, tracker, focus, obs>>

\* A face with the lower lip h units below the upper lip.
MouthFace(h) == [Face(30, 30, NoseCentre) EXCEPT ![14] = Pt(5000, 6500 + h)]

\* A closed mouth, a mouth a little open, a yawn.
MouthFaces == {MouthFace(h) : h \in {0, 100, 400}}

(***************************************************************************)
(* HeadTracker (headTracking.ts 26-122).  Head positions and the          *)
(* smoothing factor are in thousandths, angles in milliradians.  A        *)
(* calibration is [centerX, centerY, rangeX, rangeY, isCalibrated].       *)
(***************************************************************************)
NOSE_TIP == 4

TrackerInit ==
    [calibration |-> [centerX |-> 5000, centerY |-> 5000, rangeX |-> 3000, rangeY |-> 2000,
                      isCalibrated |-> FALSE],
     smoothedX |-> 0, smoothedY |-> 0, smoothingFactor |-> 700]

\* Math.atan2(y, x) in milliradians.
Atan2(y, x) ==
    IF x > 0 THEN Atan(Quot(y * 1000, x))
    ELSE IF x < 0 THEN Atan(Quot(y * 1000, x)) + (IF y >= 0 THEN 3142 ELSE 0 - 3142)
    ELSE IF y > 0 THEN 1571
    ELSE IF y < 0 THEN 0 - 1571
    ELSE 0

\* The offset over the range, not clamped.
RawPosition_unclamped(offset, range) == Quot(offset * 1000, range)

\* lines 59-64: offset from the calibrated centre over the range, clamped to [-1, 1]
RawPosition(offset, range) == Max(0 - 1000, Min(1000, Quot(offset * 1000, range)))

\* lines 67-68
Smoothed(smoothed, raw, factor) == Quot(smoothed * factor + raw * (1000 - factor), 1000)

\* landmarks[i] is undefined when the array is shorter than i + 1, and reading
\* a coordinate of undefined throws a TypeError.
Defined(landmarks, indices) == indices \subseteq DOMAIN landmarks

\* A track that re-centres the calibration on the nose it sees.
Track_recentring(tr, landmarks) ==
    [tracker |-> [tr EXCEPT !.calibration.centerX = landmarks[NOSE_TIP].x,
                            !.calibration.centerY = landmarks[NOSE_TIP].y],
     ret |-> [x |-> 0, y |-> 0, tilt |-> 0, yaw |-> 0, pitch |-> 0]]

\* lines 50-94: the tracker after the call and the HeadPosition it returns.
\* The nose is read first (line 59), the smoothed position is written (lines
\* 67-68), and the eyes, the forehead and the chin are read after that.
Track(tr, landmarks) ==
    IF ~Defined(landmarks, {NOSE_TIP}) THEN [tracker |-> tr, ret |-> "TypeError"]
    ELSE
    LET nose == landmarks[NOSE_TIP]
        forehead == landmarks[10]
        chin == landmarks[152]
        leftEye == landmarks[33]
        rightEye == landmarks[263]
        rawX == RawPosition(nose.x - tr.calibration.centerX, tr.calibration.rangeX)
        rawY == RawPosition(nose.y - tr.calibration.centerY, tr.calibration.rangeY)
        sx == Smoothed(tr.smoothedX, rawX, tr.smoothingFactor)
        sy == Smoothed(tr.smoothedY, rawY, tr.smoothingFactor)
        eyeDistance == Abs(rightEye.x - leftEye.x)
        faceHeight == Abs(forehead.y - chin.y)
        normalizedPitch == Quot((nose.y - forehead.y) * 1000,
                                IF faceHeight = 0 THEN 1000 ELSE faceHeight)
    IN  IF ~Defined(landmarks, {10, 33, 152, 263})
        THEN [tracker |-> [tr EXCEPT !.smoothedX = sx, !.smoothedY = sy], ret |-> "TypeError"]
        ELSE
        [tracker |-> [tr EXCEPT !.smoothedX = sx, !.smoothedY = sy],
         ret |-> [x |-> sx, y |-> sy,
                  tilt |-> Atan2(rightEye.y - leftEye.y, rightEye.x - leftEye.x),
                  yaw |-> Atan2(2 * nose.x - (leftEye.x + rightEye.x),
                                IF eyeDistance = 0 THEN 1000 ELSE eyeDistance),
                  pitch |-> Atan(normalizedPitch - 500)]]

\* calibrate that keeps the smoothed position of the frames before it.
Calibrated_keepSmoothed(tr, landmarks) ==
    [tr EXCEPT !.calibration = [centerX |-> landmarks[NOSE_TIP].x, centerY |-> landmarks[NOSE_TIP].y,
                                rangeX |-> 2500, rangeY |-> 1500, isCalibrated |-> TRUE]]

\* lines 96-112
Calibrated(tr, landmarks) ==
    IF ~Defined(landmarks, {NOSE_TIP}) THEN tr
    ELSE
    [tr EXCEPT !.calibration = [centerX |-> landmarks[NOSE_TIP].x, centerY |-> landmarks[NOSE_TIP].y,
                                rangeX |-> 2500, rangeY |-> 1500, isCalibrated |-> TRUE],
               !.smoothedX = 0,
               !.smoothedY = 0]

MaxTrackFrames == 3

HeadTracker_track(landmarks) ==
    /\ obs.trackCalls < MaxTrackFrames
    /\ \E d \in {Track(tracker, landmarks)} :
         /\ tracker' = d.tracker
         /\ ret' = d.ret
    /\ op' = "HeadTracker.track"
    /\ obs' = [obs EXCEPT !.trackCalls = @ + 1,
                          !.shortInput = ~Defined(landmarks, {NOSE_TIP, 10, 33, 152, 263}),
                          !.lastNose = IF Defined(landmarks, {NOSE_TIP}) THEN landmarks[NOSE_TIP] ELSE @,
                          !.roundTrip = /\ op = "HeadTracker.calibrate"
                                        /\ Defined(landmarks, {NOSE_TIP})
                                        /\ obs.lastNose = landmarks[NOSE_TIP]]
    /\ UNCHANGED <<now, blink, gr, hand, store, sleep, fat, eye, mouth, focus>>

HeadTracker_calibrate(landmarks) ==
    /\ tracker' = Calibrated(tracker, landmarks)
    /\ ret' = IF Defined(landmarks, {NOSE_TIP}) THEN tracker'.calibration ELSE "TypeError"
    /\ op' = "HeadTracker.calibrate"
    /\ obs' = [obs EXCEPT !.lastNose = IF Defined(landmarks, {NOSE_TIP}) THEN landmarks[NOSE_TIP] ELSE @,
                          !.shortInput = ~Defined(landmarks, {NOSE_TIP}),
                          !.offCentreBefore = tracker.smoothedX # 0 /\ tracker.smoothedY # 0,
                          !.roundTrip = FALSE]
    /\ UNCHANGED <<now, blink, gr, hand, store, sleep, fat, eye, mouth, focus>>

\* lines 42-44
HeadTracker_setCalibration(calibration) ==
    /\ tracker' = [tracker EXCEPT !.calibration = calibration]
    /\ ret' = "void"
    /\ op' = "HeadTracker.setCalibration"
    /\ obs' = [obs EXCEPT !.roundTrip = FALSE]
    /\ UNCHANGED <<now, blink, gr, hand, store, sleep, fat, eye, mouth, focus>>

\* lines 46-48
HeadTracker_setSmoothing(factor) ==
    /\ tracker' = [tracker EXCEPT !.smoothingFactor = Max(0, Min(1000, factor))]
    /\ ret' = "void"
    /\ op' = "HeadTracker.setSmoothing"
    /\ obs' = [obs EXCEPT !.roundTrip = FALSE]
    /\ UNCHANGED <<now, blink, gr, hand, store, sleep, fat, eye, mouth, focus>>

\* lines 118-121
HeadTracker_reset ==
    /\ tracker' = [tracker EXCEPT !.smoothedX = 0, !.smoothedY = 0]
    /\ ret' = "void"
    /\ op' = "HeadTracker.reset"
    /\ obs' = [obs EXCEPT !.roundTrip = FALSE]
    /\ UNCHANGED <<now, blink, gr, hand, store, sleep, fat, eye, mouth, focus>>

\* Faces with the nose at the centre of the frame, right and low, left and high.
TrackerFaces == {Face(30, 30, n) : n \in {NoseCentre, Pt(6500, 5600), Pt(3500, 4400)}}

\* A calibration saved earlier, centred left of the frame with half the default range.
SavedCalibration ==
    [centerX |-> 3500, centerY |-> 5000, rangeX |-> 1500, rangeY |-> 1000, isCalibrated |-> TRUE]

\* Smoothing factors passed to setSmoothing: below 0, 0, 0.5, above 1.
SmoothingFactors == {0 - 500, 0, 500, 1500}

\* The first n entries of a landmark array.
Short(landmarks, n) == [i \in {j \in DOMAIN landmarks : j < n} |-> landmarks[i]]

\* Landmark arrays cut off before the nose tip, and after it but before the
\* forehead, the eyes and the chin.
ShortFaces == {Short(f, n) : f \in TrackerFaces, n \in {4, 5}}

\* The tracker fed whole and truncated landmark arrays.
ShortNext ==
    \/ \E f \in TrackerFaces \cup ShortFaces : HeadTracker_track(f)
    \/ \E f \in TrackerFaces \cup ShortFaces : HeadTracker_calibrate(f)
    \/ HeadTracker_reset

TrackerNext ==
    \/ \E f \in TrackerFaces : HeadTracker_track(f)
    \/ \E f \in TrackerFaces : HeadTracker_calibrate(f)
    \/ HeadTracker_setCalibration(SavedCalibration)
    \/ \E k \in SmoothingFactors : HeadTracker_setSmoothing(k)
    \/ HeadTracker_reset

(***************************************************************************)
(* FatigueDetector (fatigueDetection.ts 20-337).  Head heights and mouth   *)
(* ratios are in thousandths, the mean blink duration in thousandths of a *)
(* millisecond and the closed-eye percentage in thousandths of a percent,  *)
(* so that every comparison of the code is decided exactly.                *)
(***************************************************************************)
eyeHistoryMaxLength == 30

FATIGUE_BLINK_RATE == [min |-> 20, max |-> 26]

DROWSY_BLINK_RATE == [min |-> 4, max |-> 14]

NORMAL_BLINK_DURATION == 200

LONG_BLINK_DURATION == 400

YAWN_DURATION_THRESHOLD == 2000

HEAD_DROOP_THRESHOLD == 150

FatInit ==
    [blinkTimestamps |-> <<>>, blinkDurations |-> <<>>, lastBlinkStart |-> NULL,
     wasBlinking |-> FALSE, leftEyeHistory |-> <<>>, rightEyeHistory |-> <<>>,
     yawnCount |-> 0, lastYawnTime |-> 0, mouthOpenDuration |-> 0, mouthWasOpen |-> FALSE,
     mouthOpenStart |-> 0, headYHistory |-> <<>>, headDroopEvents |-> 0,
     headYBaseline |-> NULL, sessionStartTime |-> NULL, breakInterval |-> 30 * 60 * 1000,
     lastBreakTime |-> NULL]

\* No cap: the history keeps every sample.
PushedCapped_uncapped(history, value, max) == Append(history, value)

\* push, then shift when longer than max
PushedCapped(history, value, max) ==
    LET h == Append(history, value)
    IN  IF Len(h) > max THEN Tail(h) ELSE h

\* lines 81-90
Reset(f) ==
    [f EXCEPT !.blinkTimestamps = <<>>, !.blinkDurations = <<>>, !.yawnCount = 0,
              !.headDroopEvents = 0, !.leftEyeHistory = <<>>, !.rightEyeHistory = <<>>,
              !.headYHistory = <<>>, !.headYBaseline = NULL]

\* recordBreak clearing both counters.
BreakRecorded_clearCounts(f, t) ==
    [f EXCEPT !.lastBreakTime = t, !.yawnCount = 0, !.headDroopEvents = 0]

\* lines 75-79
BreakRecorded(f, t) ==
    [f EXCEPT !.lastBreakTime = t,
              !.yawnCount = Max(0, @ - 2),
              !.headDroopEvents = Max(0, @ - 1)]

\* lines 116-120: the number of leading timestamps older than the cutoff
RECURSIVE OldBlinks(_, _)
OldBlinks(timestamps, cutoff) ==
    IF timestamps # <<>> /\ Head(timestamps) < cutoff
    THEN 1 + OldBlinks(Tail(timestamps), cutoff)
    ELSE 0

\* Every closure recorded as a blink, whatever its length.
EyeStateProcessed_anyDuration(f, leftEyeOpen, rightEyeOpen, t) ==
    LET isBlinking == ~leftEyeOpen /\ ~rightEyeOpen
        start == IF isBlinking /\ ~f.wasBlinking THEN t ELSE f.lastBlinkStart
        ends == ~isBlinking /\ f.wasBlinking /\ Truthy(start)
    IN  [f EXCEPT !.leftEyeHistory = PushedCapped(@, leftEyeOpen, eyeHistoryMaxLength),
                  !.rightEyeHistory = PushedCapped(@, rightEyeOpen, eyeHistoryMaxLength),
                  !.blinkTimestamps = IF ends THEN Append(@, t) ELSE @,
                  !.blinkDurations = IF ends THEN Append(@, t - start) ELSE @,
                  !.lastBlinkStart = IF ends THEN NULL ELSE start,
                  !.wasBlinking = isBlinking]

\* lines 93-131
EyeStateProcessed(f, leftEyeOpen, rightEyeOpen, t) ==
    LET isBlinking == ~leftEyeOpen /\ ~rightEyeOpen
        start == IF isBlinking /\ ~f.wasBlinking THEN t ELSE f.lastBlinkStart
        ends == ~isBlinking /\ f.wasBlinking /\ Truthy(start)
        blinkDuration == t - start
        counted == ends /\ blinkDuration >= 50 /\ blinkDuration <= 500
        ts == IF counted THEN Append(f.blinkTimestamps, t) ELSE f.blinkTimestamps
        ds == IF counted THEN Append(f.blinkDurations, blinkDuration) ELSE f.blinkDurations
        old == IF counted THEN OldBlinks(ts, t - 120000) ELSE 0
    IN  [f EXCEPT !.leftEyeHistory = PushedCapped(@, leftEyeOpen, eyeHistoryMaxLength),
                  !.rightEyeHistory = PushedCapped(@, rightEyeOpen, eyeHistoryMaxLength),
                  !.blinkTimestamps = SubSeq(ts, old + 1, Len(ts)),
                  !.blinkDurations = SubSeq(ds, old + 1, Len(ds)),
                  !.lastBlinkStart = IF ends THEN NULL ELSE start,
                  !.wasBlinking = isBlinking]

\* A yawn counted on every call of a long enough opening.
MouthStateProcessed_noGap(f, isMouthOpen, mouthOpenRatio, t) ==
    LET wide == isMouthOpen /\ mouthOpenRatio > 600
        start == IF ~f.mouthWasOpen THEN t ELSE f.mouthOpenStart
        yawn == t - start >= YAWN_DURATION_THRESHOLD
    IN  IF wide
        THEN [f EXCEPT !.mouthOpenStart = start,
                       !.mouthOpenDuration = t - start,
                       !.yawnCount = IF yawn THEN @ + 1 ELSE @,
                       !.lastYawnTime = IF yawn THEN t ELSE @,
                       !.mouthWasOpen = TRUE]
        ELSE [f EXCEPT !.mouthOpenDuration = 0, !.mouthWasOpen = FALSE]

\* lines 134-155
MouthStateProcessed(f, isMouthOpen, mouthOpenRatio, t) ==
    LET wide == isMouthOpen /\ mouthOpenRatio > 600
        start == IF ~f.mouthWasOpen THEN t ELSE f.mouthOpenStart
        yawn == t - start >= YAWN_DURATION_THRESHOLD /\ t - f.lastYawnTime > 5000
    IN  IF wide
        THEN [f EXCEPT !.mouthOpenStart = start,
                       !.mouthOpenDuration = t - start,
                       !.yawnCount = IF yawn THEN @ + 1 ELSE @,
                       !.lastYawnTime = IF yawn THEN t ELSE @,
                       !.mouthWasOpen = TRUE]
        ELSE [f EXCEPT !.mouthOpenDuration = 0, !.mouthWasOpen = FALSE]

\* lines 158-180; the history holds 30 readings when the baseline is taken
HeadPositionProcessed(f, headY) ==
    LET baseline == IF f.headYBaseline = NULL /\ Len(f.headYHistory) >= 30
                    THEN Quot(SumSeq(f.headYHistory), Len(f.headYHistory))
                    ELSE f.headYBaseline
        history == PushedCapped(f.headYHistory, headY, 60)
        recent == SubSeq(history, Max(1, Len(history) - 9), Len(history))
        droops == /\ baseline # NULL
                  /\ headY - baseline > HEAD_DROOP_THRESHOLD
                  /\ SumSeq(recent) - 10 * baseline > 8 * HEAD_DROOP_THRESHOLD
    IN  [f EXCEPT !.headYBaseline = baseline,
                  !.headYHistory = history,
                  !.headDroopEvents = IF droops THEN @ + 1 ELSE @]

\* lines 183-188
getBlinkRate(f, t) ==
    Cardinality({i \in DOMAIN f.blinkTimestamps : f.blinkTimestamps[i] > t - 60000})

\* lines 191-194, in thousandths of a millisecond
getAverageBlinkDuration(f) ==
    IF Len(f.blinkDurations) = 0 THEN 1000 * NORMAL_BLINK_DURATION
    ELSE (1000 * SumSeq(f.blinkDurations)) \div Len(f.blinkDurations)

\* lines 209-219, in thousandths of a percent
countSlowEyeMovements(f) ==
    IF Len(f.leftEyeHistory) < 10 THEN 0
    ELSE LET closedFrames == Cardinality({i \in DOMAIN f.leftEyeHistory :
                                            ~f.leftEyeHistory[i] /\ ~f.rightEyeHistory[i]})
         IN  (closedFrames * 100000) \div Len(f.leftEyeHistory)

\* lines 197-206
getMetrics(f, t) ==
    [blinkRate |-> getBlinkRate(f, t),
     avgBlinkDuration |-> getAverageBlinkDuration(f),
     yawnCount |-> f.yawnCount,
     headDroopEvents |-> f.headDroopEvents,
     slowEyeMovements |-> countSlowEyeMovements(f),
     sessionDuration |-> IF Truthy(f.sessionStartTime) THEN t - f.sessionStartTime ELSE 0]

\* The sum of the points returned as it is.
ClampedScore_none(score) == score

\* line 272
ClampedScore(score) == Min(score, 100)

\* lines 227-272: the score of calculateFatigueScore from the metrics
FatigueScore(metrics) ==
    LET blinkRate == metrics.blinkRate
        rate == IF blinkRate < DROWSY_BLINK_RATE.min THEN 30
                ELSE IF blinkRate < DROWSY_BLINK_RATE.max THEN 20
                ELSE IF blinkRate > FATIGUE_BLINK_RATE.max THEN 15
                ELSE IF blinkRate > FATIGUE_BLINK_RATE.min THEN 10
                ELSE 0
        long == IF metrics.avgBlinkDuration > 1000 * LONG_BLINK_DURATION THEN 20
                ELSE IF metrics.avgBlinkDuration > 1500 * NORMAL_BLINK_DURATION THEN 10
                ELSE 0
        yawns == Min(metrics.yawnCount * 10, 30)
        droop == Min(metrics.headDroopEvents * 15, 30)
        perclos == IF metrics.slowEyeMovements > 20000 THEN 25
                   ELSE IF metrics.slowEyeMovements > 15000 THEN 15
                   ELSE IF metrics.slowEyeMovements > 10000 THEN 5
                   ELSE 0
        session == IF metrics.sessionDuration > 2 * 60 * 60 * 1000 THEN 10
                   ELSE IF metrics.sessionDuration > 60 * 60 * 1000 THEN 5
                   ELSE 0
    IN  ClampedScore(rate + long + yawns + droop + perclos + session)

\* lines 222-273
calculateFatigueScore(f, t) == FatigueScore(getMetrics(f, t))

\* The break clock read from the session start alone.
getFatigueState_sessionClock(f, t) ==
    LET score == calculateFatigueScore(f, t)
        timeSinceBreak == IF Truthy(f.sessionStartTime) THEN t - f.sessionStartTime ELSE 0
        timeUntilBreak == Max(0, f.breakInterval - timeSinceBreak)
    IN  [level |-> IF score < 20 THEN "fresh"
                   ELSE IF score < 40 THEN "mild"
                   ELSE IF score < 60 THEN "moderate"
                   ELSE "severe",
         score |-> score,
         shouldTakeBreak |-> timeUntilBreak = 0 \/ score >= 60,
         timeUntilBreak |-> timeUntilBreak]

\* lines 276-303
getFatigueState(f, t) ==
    LET score == calculateFatigueScore(f, t)
        timeSinceBreak == IF Truthy(f.lastBreakTime) THEN t - f.lastBreakTime
                          ELSE IF Truthy(f.sessionStartTime) THEN t - f.sessionStartTime
                          ELSE 0
        timeUntilBreak == Max(0, f.breakInterval - timeSinceBreak)
    IN  [level |-> IF score < 20 THEN "fresh"
                   ELSE IF score < 40 THEN "mild"
                   ELSE IF score < 60 THEN "moderate"
                   ELSE "severe",
         score |-> score,
         shouldTakeBreak |-> timeUntilBreak = 0 \/ score >= 60,
         timeUntilBreak |-> timeUntilBreak]

\* A call of a FatigueDetector method that returns nothing.
FatigueCall(name, f) ==
    /\ fat' = f
    /\ op' = name
    /\ ret' = "void"
    /\ UNCHANGED <<now, blink, gr, hand, store, sleep, eye, tracker, mouth, focus>>

\* A call of a FatigueDetector query.
FatigueQuery(name, value) ==
    /\ ret' = value
    /\ op' = name
    /\ UNCHANGED <<now, blink, gr, hand, store, sleep, fat, eye, tracker, mouth, focus, obs>>

\* lines 61-63
FatigueDetector_setBreakInterval(minutes) ==
    /\ FatigueCall("FatigueDetector.setBreakInterval", [fat EXCEPT !.breakInterval = minutes * 60 * 1000])
    /\ obs' = [obs EXCEPT !.breakDue = FALSE]

\* lines 65-69
FatigueDetector_startSession ==
    /\ FatigueCall("FatigueDetector.startSession",
                   Reset([fat EXCEPT !.sessionStartTime = now, !.lastBreakTime = now]))
    /\ obs' = [obs EXCEPT !.lastBreak = now, !.breakDue = FALSE]

\* lines 71-73
FatigueDetector_endSession ==
    /\ FatigueCall("FatigueDetector.endSession", [fat EXCEPT !.sessionStartTime = NULL])
    /\ UNCHANGED obs

FatigueDetector_recordBreak ==
    /\ FatigueCall("FatigueDetector.recordBreak", BreakRecorded(fat, now))
    /\ obs' = [obs EXCEPT !.countsBefore = <<fat.yawnCount, fat.headDroopEvents>>,
                          !.lastBreak = now, !.breakDue = FALSE]

\* obs.fresh: in the behaviours that compare them, a detector constructed at
\* the last reset() with the same break interval and fed the same calls since.
FatigueDetector_reset ==
    /\ FatigueCall("FatigueDetector.reset", Reset(fat))
    /\ obs' = [obs EXCEPT !.breakDue = FALSE,
                          !.fresh = IF focus = "reset"
                                    THEN [FatInit EXCEPT !.breakInterval = fat.breakInterval]
                                    ELSE @,
                          !.wasReset = focus = "reset"]

MaxEyeFrames == 3

MaxBreakFrames == 4

MaxHistoryEyeFrames == 32

\* The number of eye frames a behaviour feeds, by what it drives.
EyeFrameBound ==
    CASE focus = "break" -> MaxBreakFrames
      [] focus = "fatigueEye" -> MaxHistoryEyeFrames
      [] focus = "window" -> MaxBreakFrames
      [] OTHER -> MaxEyeFrames

\* obs.closedSince: the time of the first call of the current run of calls
\* with both eyes closed.
FatigueDetector_processEyeState(leftEyeOpen, rightEyeOpen) ==
    /\ obs.eyeFrames < EyeFrameBound
    /\ FatigueCall("FatigueDetector.processEyeState",
                   EyeStateProcessed(fat, leftEyeOpen, rightEyeOpen, now))
    /\ obs' = [obs EXCEPT !.eyeFrames = @ + 1,
                          !.closedSince = IF ~leftEyeOpen /\ ~rightEyeOpen
                                          THEN (IF @ = NULL THEN now ELSE @)
                                          ELSE NULL,
                          !.fresh = IF obs.wasReset
                                    THEN EyeStateProcessed(@, leftEyeOpen, rightEyeOpen, now)
                                    ELSE @]

\* obs.wideSince: the time of the first call of the current run of calls with
\* the mouth open and the ratio above 0.6; obs.lastYawn: the time of the last
\* call that raised yawnCount.
FatigueDetector_processMouthState(isMouthOpen, mouthOpenRatio) ==
    /\ FatigueCall("FatigueDetector.processMouthState",
                   MouthStateProcessed(fat, isMouthOpen, mouthOpenRatio, now))
    /\ obs' = [obs EXCEPT !.fresh = IF obs.wasReset
                                    THEN MouthStateProcessed(@, isMouthOpen, mouthOpenRatio, now)
                                    ELSE @,
                          !.wideSince = IF isMouthOpen /\ mouthOpenRatio > 600
                                        THEN (IF @ = NULL THEN now ELSE @)
                                        ELSE NULL,
                          !.lastYawn = IF fat'.yawnCount > fat.yawnCount THEN now ELSE @,
                          !.yawnsInRun = IF isMouthOpen /\ mouthOpenRatio > 600
                                         THEN (IF fat'.yawnCount > fat.yawnCount THEN @ + 1 ELSE @)
                                         ELSE 0]

MaxHeadFrames == 35

MaxHistoryHeadFrames == 62

\* The head heights fed to the detector: level, and 0.45 lower.
HeadHeights == {0, 450}

\* The head of a behaviour sinks and does not rise again.
\* obs.droopsInRun: the raises of headDroopEvents in the current run of calls
\* with the head more than the threshold below the baseline.
FatigueDetector_processHeadPosition(headY) ==
    /\ obs.headFrames < (IF focus = "fatigueHead" THEN MaxHistoryHeadFrames ELSE MaxHeadFrames)
    /\ obs.headFrames = 0 \/ headY >= obs.lastHeadY
    /\ FatigueCall("FatigueDetector.processHeadPosition", HeadPositionProcessed(fat, headY))
    /\ obs' = [obs EXCEPT !.headFrames = @ + 1, !.lastHeadY = headY,
                          !.droopsInRun =
                              IF /\ fat'.headYBaseline # NULL
                                 /\ headY - fat'.headYBaseline > HEAD_DROOP_THRESHOLD
                              THEN (IF fat'.headDroopEvents > fat.headDroopEvents
                                    THEN @ + 1 ELSE @)
                              ELSE 0]

FatigueDetector_getMetrics == FatigueQuery("FatigueDetector.getMetrics", getMetrics(fat, now))

FatigueDetector_calculateFatigueScore ==
    FatigueQuery("FatigueDetector.calculateFatigueScore", calculateFatigueScore(fat, now))

\* obs.breakDue: a query has returned shouldTakeBreak since the last call of
\* recordBreak, startSession, reset or setBreakInterval.
FatigueDetector_getFatigueState ==
    /\ ret' = getFatigueState(fat, now)
    /\ op' = "FatigueDetector.getFatigueState"
    /\ obs' = [obs EXCEPT !.breakDue = @ \/ ret'.shouldTakeBreak]
    /\ UNCHANGED <<now, blink, gr, hand, store, sleep, fat, eye, tracker, mouth, focus>>

\* A wide-open mouth, a half-open mouth, a closed mouth.
MouthInputs == {<<TRUE, 700>>, <<TRUE, 500>>, <<FALSE, 0>>}

MaxMouthTicks == 3

MouthHorizon == StartTime + MaxMouthTicks * 6000

MaxBlinkTicks == 3

BlinkHorizon == StartTime + MaxBlinkTicks * 250

\* The calls that every behaviour of the detector may make.
FatigueSessionNext ==
    \/ \E minutes \in {1, 30} : FatigueDetector_setBreakInterval(minutes)
    \/ FatigueDetector_startSession
    \/ FatigueDetector_endSession
    \/ FatigueDetector_recordBreak
    \/ FatigueDetector_reset

\* A behaviour feeds the detector mouth frames some seconds apart, head
\* heights, or eye frames a fraction of a second apart.
FatigueNext ==
    \/ FatigueSessionNext
    \/ focus = "mouth" /\ Tick(6000, MouthHorizon)
    \/ focus = "mouth" /\ \E m \in MouthInputs : FatigueDetector_processMouthState(m[1], m[2])
    \/ focus = "head" /\ \E y \in HeadHeights : FatigueDetector_processHeadPosition(y)
    \/ focus = "eye" /\ Tick(250, BlinkHorizon)
    \/ focus = "eye" /\ \E l, r \in BOOLEAN : FatigueDetector_processEyeState(l, r)

(***************************************************************************)
(* AccessMateApp.handleFaceResults (AccessMateApp.tsx 55-135).  results   *)
(* is [present, landmarks].  store.face holds the face fields of the       *)
(* store's detection record, store.cursor x and y are in thousandths.      *)
(* obs.latestFace is latestFaceLandmarksRef, obs.clickTimers the times at  *)
(* which the pending setTimeout callbacks of left clicks are due.          *)
(***************************************************************************)
\* lines 115-124: mouth open starts a drag, mouth closed ends it
DragUpdated(s, isOpen, isDragging) ==
    IF isOpen /\ ~isDragging THEN [s EXCEPT !.cursor.isDragging = TRUE]
    ELSE IF ~isOpen /\ isDragging THEN [s EXCEPT !.cursor.isDragging = FALSE]
    ELSE s

\* latestFaceLandmarksRef.current = null (line 134)
NoLandmarks == << >>

\* lines 92-112: the cursor follows the head, and a wink clicks
ControlApplied(s, headPos, wink) ==
    LET s2 == IF s.cursorMode = "head"
              THEN [s EXCEPT !.cursor.x = (headPos.x + 1000) \div 2,
                             !.cursor.y = (headPos.y + 1000) \div 2]
              ELSE s
    IN  IF wink = "left"
        THEN [s2 EXCEPT !.stats.clickCount = @ + 1, !.cursor.isClicking = TRUE]
        ELSE IF wink = "right" THEN [s2 EXCEPT !.stats.clickCount = @ + 1]
        ELSE s2

\* Each intermediate value of the handler is computed once and then used.
handleFaceResults(results) ==
    IF results.present
    THEN \E landmarks \in {results.landmarks} :
         \E h \in {Track(tracker, landmarks)} :
         \E e \in {EyeDetect(eye, landmarks)} :
         \E m \in {MouthDetect(mouth, landmarks)} :
         \E control \in {store.isActive /\ ~store.isPaused} :
         \E w \in {IF control /\ store.clickMode = "wink"
                   THEN IntentionalWink(e.eye, landmarks, now)
                   ELSE [eye |-> e.eye, state |-> e.state, ret |-> "null"]} :
         \E s1 \in {[store EXCEPT !.face = [isFaceDetected |-> TRUE, headX |-> h.ret.x,
                                            headY |-> h.ret.y, headTilt |-> h.ret.tilt,
                                            leftEyeOpen |-> e.state.leftOpen,
                                            rightEyeOpen |-> e.state.rightOpen,
                                            isMouthOpen |-> m.ret.isOpen]]} :
         \E s3 \in {IF control THEN ControlApplied(s1, h.ret, w.ret) ELSE s1} :
         \E f1 \in {EyeStateProcessed(fat, e.state.leftOpen, e.state.rightOpen, now)} :
         \E f2 \in {MouthStateProcessed(f1, m.ret.isOpen, m.ret.openRatio \div 60, now)} :
             /\ tracker' = h.tracker
             /\ eye' = w.eye
             /\ mouth' = m.mouth
             /\ store' = DragUpdated(s3, m.ret.isOpen, store.cursor.isDragging)
             /\ fat' = IF store.fatigueDetectionEnabled
                       THEN HeadPositionProcessed(f2, h.ret.y)
                       ELSE fat
             /\ ret' = w.ret
             /\ obs' = [obs EXCEPT !.latestFace = landmarks,
                                   !.faceFrames = @ + 1,
                                   !.clickTimers = IF w.ret = "left" THEN @ \cup {now + 100} ELSE @]
    ELSE /\ store' = [store EXCEPT !.face.isFaceDetected = FALSE]
         /\ ret' = "null"
         /\ obs' = [obs EXCEPT !.latestFace = NoLandmarks]
         /\ UNCHANGED <<tracker, eye, mouth, fat>>

MaxFaceFrames == 3

FaceFrame(results) ==
    /\ results.present => obs.faceFrames < MaxFaceFrames
    /\ handleFaceResults(results)
    /\ op' = "handleFaceResults"
    /\ UNCHANGED <<now, blink, gr, hand, sleep, focus>>

\* line 108: the callback of setTimeout(..., 100) after a left click
ClickTimeout ==
    /\ \E due \in obs.clickTimers :
         /\ now >= due
         /\ obs' = [obs EXCEPT !.clickTimers = @ \ {due}]
    /\ store' = [store EXCEPT !.cursor.isClicking = FALSE]
    /\ op' = "updateCursor"
    /\ ret' = "void"
    /\ UNCHANGED <<now, blink, gr, hand, sleep, fat, eye, tracker, mouth, focus>>

\* A face with eyelids aL and aR and the lower lip h below the upper lip.
PipelineFace(aL, aR, h) == [Face(aL, aR, NoseCentre) EXCEPT ![14] = Pt(5000, 6500 + h)]

\* Both eyes open or the left eye closed with the mouth shut, and both eyes
\* open with the mouth wide open.
PipelineFaces == {PipelineFace(30, 30, 0), PipelineFace(10, 30, 0), PipelineFace(30, 30, 400)}

FaceResults ==
    {[present |-> FALSE, landmarks |-> PipelineFace(30, 30, 0)]}
        \cup {[present |-> TRUE, landmarks |-> f] : f \in PipelineFaces}

MaxFaceTicks == 2

FaceHorizon == StartTime + MaxFaceTicks * 100

\* The face loop with control switched on and off, paused and resumed, and
\* the click mode changed in the settings.
FaceNext ==
    \/ Tick(100, FaceHorizon)
    \/ \E r \in FaceResults : FaceFrame(r)
    \/ ClickTimeout
    \/ \E b \in BOOLEAN : StoreAction("setActive", setActive(store, b))
    \/ \E b \in BOOLEAN : StoreAction("setPaused", setPaused(store, b))
    \/ \E c \in {"wink", "dwell"} :
         StoreAction("updateSettings", [store EXCEPT !.clickMode = c])

(***************************************************************************)
(* Specifications.  Every behaviour starts from freshly constructed       *)
(* objects and drives one component (focus); the others stay as built.    *)
(***************************************************************************)
ObsInit ==
    [closedRun |-> 0, endedRun |-> 0,
     runGesture |-> "none", runStart |-> NULL, runClean |-> TRUE, firesInRun |-> 0,
     prevFire |-> NULL, lastFire |-> NULL,
     sleeping |-> FALSE, sleepOpen |-> NULL, sleepDone |-> 0,
     eyesClosed |-> FALSE, flatFace |-> FALSE,
     rawL |-> <<>>, rawR |-> <<>>, eyeState |-> "none",
     eyeFrames |-> 0, headFrames |-> 0, lastHeadY |-> NULL,
     shortInput |-> FALSE, closedSince |-> NULL, wideSince |-> NULL, lastYawn |-> NULL, yawnsInRun |-> 0,
     countsBefore |-> <<0, 0>>, lastBreak |-> NULL, breakDue |-> FALSE,
     leftWinkSince |-> NULL, rightWinkSince |-> NULL, heldBefore |-> FALSE,
     cameraActive |-> FALSE, breakSetting |-> 30, droopsInRun |-> 0,
     fresh |-> FatInit, wasReset |-> FALSE,
     seenGesture |-> "null", seenSince |-> NULL,
     appSessions |-> 0, storeSessions |-> 0, idleEnd |-> FALSE,
     latestFace |-> NoLandmarks, faceFrames |-> 0, clickTimers |-> {},
     trackCalls |-> 0, lastNose |-> NoseCentre, offCentreBefore |-> FALSE, roundTrip |-> FALSE]

InitObjects ==
    /\ blink = BlinkInit
    /\ gr = GRInit
    /\ store = StoreInit
    /\ sleep = SleepInit
    /\ eye = EyeInit
    /\ mouth = MouthInit
    /\ tracker = TrackerInit
    /\ op = "init"
    /\ ret = "void"
    /\ obs = ObsInit

NoInput == [landmarks |-> FistFixture, isRightHand |-> TRUE]

\* Freshly constructed objects at the start of the clock.
InitBuilt == InitObjects /\ now = StartTime /\ fat = FatInit

\* BlinkDetector alone.
InitBlink == InitBuilt /\ hand = NoInput /\ focus = "blink"

SpecBlink == InitBlink /\ [][BlinkNext]_vars

\* countFingers and recognize on every hand of the coordinate grid.
InitFingers ==
    /\ InitBuilt
    /\ hand \in {[landmarks |-> HandOf(c), isRightHand |-> r] : c \in HandCoords, r \in BOOLEAN}
    /\ focus = "fingers"

SpecFingers == InitFingers /\ [][FingersNext]_vars

\* GestureRecognizer polled directly.
InitGesture == InitBuilt /\ hand = NoInput /\ focus = "gesture"

SpecGesture == InitGesture /\ [][GestureNext]_vars

\* SleepDetector.
InitSleep == InitBuilt /\ hand = NoInput /\ focus = "sleep"

SpecSleep == InitSleep /\ [][SleepNext]_vars

\* EyeGestureDetector.
InitEye == InitBuilt /\ hand = NoInput /\ focus = "eye"

SpecEye == InitEye /\ [][EyeNext]_vars

\* HeadTracker.
InitTracker == InitBuilt /\ hand = NoInput /\ focus = "tracker"

SpecTracker == InitTracker /\ [][TrackerNext]_vars

\* FatigueDetector from its construction.
InitFatigue == InitBuilt /\ hand = NoInput /\ focus \in {"mouth", "head", "eye"}

SpecFatigue == InitFatigue /\ [][FatigueNext]_vars

\* The break signal: a yawn of six seconds, then eye frames a quarter of a
\* second apart, then a minute without input; the state is queried throughout.
MaxBreakTicks == 3

BreakHorizon == StartTime + 6000 + MaxBreakTicks * 250

BreakNext ==
    \/ now = StartTime /\ Tick(6000, BreakHorizon)
    \/ now > StartTime /\ Tick(250, BreakHorizon)
    \/ /\ now <= StartTime + 6000
       /\ \E m \in {<<TRUE, 700>>, <<FALSE, 0>>} : FatigueDetector_processMouthState(m[1], m[2])
    \/ /\ now >= StartTime + 6000
       /\ \E open \in BOOLEAN : FatigueDetector_processEyeState(open, open)
    \/ now = BreakHorizon /\ Tick(60000, BreakHorizon + 60000)
    \/ FatigueDetector_setBreakInterval(1)
    \/ now = StartTime /\ fat.sessionStartTime = NULL /\ FatigueDetector_startSession
    \/ fat.lastBreakTime = fat.sessionStartTime /\ FatigueDetector_recordBreak
    \/ FatigueDetector_getFatigueState

InitBreak == InitBuilt /\ hand = NoInput /\ focus = "break"

SpecBreak == InitBreak /\ [][BreakNext]_vars

\* Yawns: mouth frames a second apart, on a clock that has run for longer than
\* the gap between two yawns.
MaxYawnTicks == 8

YawnStart == 6 * StartTime

YawnNext ==
    \/ Tick(1000, YawnStart + MaxYawnTicks * 1000)
    \/ \E m \in MouthInputs : FatigueDetector_processMouthState(m[1], m[2])
    \/ FatigueDetector_reset

InitYawn ==
    /\ InitObjects
    /\ now = YawnStart
    /\ fat = FatInit
    /\ hand = NoInput
    /\ focus = "yawn"

SpecYawn == InitYawn /\ [][YawnNext]_vars

\* The blink window: eye frames a quarter of a second apart for half a
\* second, pauses of a little over a minute without input, and queries of the
\* metrics.
MaxWindowPauses == 2

WindowHorizon == StartTime + 500 + MaxWindowPauses * 61000

WindowNext ==
    \/ (now - StartTime) % 61000 < 500 /\ Tick(250, WindowHorizon)
    \/ Tick(61000, WindowHorizon)
    \/ \E open \in BOOLEAN : FatigueDetector_processEyeState(open, open)
    \/ FatigueDetector_getMetrics

InitWindow == InitBuilt /\ hand = NoInput /\ focus = "window"

SpecWindow == InitWindow /\ [][WindowNext]_vars

\* The head heights of a user who looks up while the baseline is taken: 0.5
\* above the calibrated centre, and 0.8 below it.
DroopHeights == {0 - 500, 800}

\* Head heights of a head that is raised and then drops, and reset.
DroopNext ==
    \/ \E y \in DroopHeights : FatigueDetector_processHeadPosition(y)
    \/ FatigueDetector_reset

InitDroop == InitBuilt /\ hand = NoInput /\ focus = "droop"

SpecDroop == InitDroop /\ [][DroopNext]_vars

\* Faces of a wink that passes from one eye to the other: the left eye nearly
\* closed (EAR 0.14) beside a right eye at 0.23, the left eye wide open (0.32)
\* beside a closed right eye (0.05), both eyes open, and both eyes closed.
WinkFaces ==
    {Face(14, 23, NoseCentre), Face(32, 5, NoseCentre), Face(30, 30, NoseCentre),
     Face(10, 10, NoseCentre)}

MaxWinkTicks == 4

WinkHorizon == StartTime + MaxWinkTicks * 50

\* Polls of the intentional wink 50 ms or more apart.
WinkNext ==
    \/ Tick(50, WinkHorizon)
    \/ \E f \in WinkFaces : EyeGestureDetector_detectIntentionalWink(f)

InitWink == InitBuilt /\ hand = NoInput /\ focus = "wink"

SpecWink == InitWink /\ [][WinkNext]_vars

\* AccessMateApp.tsx 315-323: the effect that runs when isCameraActive or
\* settings.breakInterval has changed.  With the camera active it sets the
\* break interval and starts a session; otherwise it ends the session.
\* obs.cameraActive and obs.breakSetting are the values of its last run.
AccessMateApp_fatigueSessionEffect(isCameraActive, breakInterval) ==
    /\ isCameraActive # obs.cameraActive \/ breakInterval # obs.breakSetting
    /\ FatigueCall("AccessMateApp.fatigueSessionEffect",
                   IF isCameraActive
                   THEN Reset([fat EXCEPT !.breakInterval = breakInterval * 60 * 1000,
                                          !.sessionStartTime = now,
                                          !.lastBreakTime = now])
                   ELSE [fat EXCEPT !.sessionStartTime = NULL])
    /\ obs' = [obs EXCEPT !.cameraActive = isCameraActive, !.breakSetting = breakInterval,
                          !.lastBreak = IF isCameraActive THEN now ELSE @,
                          !.breakDue = FALSE]

\* The break intervals of the settings slider used here, in minutes.
BreakSettings == {30, 45}

MaxSettingsTicks == 3

SettingsHorizon == StartTime + MaxSettingsTicks * 250

\* The camera switched on and off and the break interval changed while eye
\* states arrive from the face loop of the running camera.
SettingsNext ==
    \/ Tick(250, SettingsHorizon)
    \/ \E a \in BOOLEAN, m \in BreakSettings : AccessMateApp_fatigueSessionEffect(a, m)
    \/ obs.cameraActive /\ \E open \in BOOLEAN : FatigueDetector_processEyeState(open, open)

InitSettings == InitBuilt /\ hand = NoInput /\ focus = "settings"

SpecSettings == InitSettings /\ [][SettingsNext]_vars

\* An open right hand in front of the camera.
PalmResults == [present |-> TRUE, landmarks |-> OpenHandFixture, label |-> "Right"]

MaxPauseTicks == 24

PauseHorizon == StartTime + MaxPauseTicks * 100

\* The time between two hand frames.
PauseTick == op # "tick" /\ \E d \in {100, 200} : Tick(d, PauseHorizon)

\* Control switched on, and then an open palm held in front of the camera: a
\* hand frame arrives every 100 or 200 ms.
PauseNext ==
    \/ ~store.isActive /\ StoreAction("setActive", setActive(store, TRUE))
    \/ PauseTick
    \/ HandFrame(PalmResults)

MaxResetTicks == 2

ResetHorizon == YawnStart + 2000 + MaxResetTicks * 250

\* Eye and mouth states fed to the detector 250 ms or 2 s apart, and reset().
ResetNext ==
    \/ (now - YawnStart) % 2000 < MaxResetTicks * 250 /\ Tick(250, ResetHorizon)
    \/ now = YawnStart /\ Tick(2000, ResetHorizon)
    \/ \E open \in BOOLEAN : FatigueDetector_processEyeState(open, open)
    \/ \E m \in {<<TRUE, 700>>, <<FALSE, 0>>} : FatigueDetector_processMouthState(m[1], m[2])
    \/ ~obs.wasReset /\ FatigueDetector_reset

InitReset ==
    /\ InitObjects
    /\ now = YawnStart
    /\ fat = FatInit
    /\ hand = NoInput
    /\ focus = "reset"

SpecReset == InitReset /\ [][ResetNext]_vars

MaxGapTicks == 4

GapHorizon == StartTime + MaxGapTicks * 250

\* Control switched on and off, and hand frames 250 ms apart in which the hand
\* may be missing.
GapNext ==
    \/ Tick(250, GapHorizon)
    \/ \E r \in HandResults : HandFrame(r)
    \/ \E b \in BOOLEAN : StoreAction("setActive", setActive(store, b))
    \/ \E b \in BOOLEAN : StoreAction("setPaused", setPaused(store, b))

InitGap == InitBuilt /\ hand = NoInput /\ focus = "gap"

SpecGap == InitGap /\ [][GapNext]_vars

\* A session history kept by the persist middleware from earlier runs.
StoredHistory(n) ==
    [i \in 1..n |-> [blinkCount |-> 0, sleepDuration |-> 0, engagementScore |-> 90, timestamp |-> i]]

StoredHistories == {StoredHistory(n) : n \in {SESSION_HISTORY_LIMIT - 1, SESSION_HISTORY_LIMIT}}

MaxSessions == 1

MaxSessionTicks == 1

SessionHorizon == StartTime + MaxSessionTicks * 30000

\* An action of useAppStore; obs counts the sessions started and remembers
\* whether the last endSession() found no session open.
AppAction(name, a, o) ==
    /\ store' = [store EXCEPT !.app = a]
    /\ obs' = o
    /\ op' = name
    /\ ret' = "void"
    /\ UNCHANGED <<now, blink, gr, hand, sleep, fat, eye, tracker, mouth, focus>>

\* An action of the application on useAccessMateStore.
CameraAction(name, s, o) ==
    /\ store' = s
    /\ obs' = o
    /\ op' = name
    /\ ret' = "void"
    /\ UNCHANGED <<now, blink, gr, hand, sleep, fat, eye, tracker, mouth, focus>>

\* AccessMateApp.tsx 252-254: the camera has started
initializeCamera ==
    /\ obs.storeSessions < MaxSessions
    /\ CameraAction("initializeCamera", startSession(setCameraActive(store, TRUE), now),
                    [obs EXCEPT !.storeSessions = @ + 1])

\* AccessMateApp.tsx 265-281
stopCamera ==
    CameraAction("stopCamera", endSession(setActive(setCameraActive(store, FALSE), FALSE), now), obs)

\* Sessions of both stores started and ended at any time, 30 s apart or at once.
SessionNext ==
    \/ Tick(30000, SessionHorizon)
    \/ op = "init" /\ \E h \in StoredHistories :
          AppAction("rehydrate", [store.app EXCEPT !.sessionHistory = h], obs)
    \/ /\ obs.appSessions < MaxSessions
       /\ AppAction("useAppStore.startSession", useAppStore_startSession(store.app, now),
                    [obs EXCEPT !.appSessions = @ + 1])
    \/ AppAction("useAppStore.endSession", useAppStore_endSession(store.app, now),
                 [obs EXCEPT !.idleEnd = ~Truthy(store.app.sessionStartTime)])
    \/ /\ store.app.blinkCount = 0
       /\ AppAction("useAppStore.incrementBlinkCount", [store.app EXCEPT !.blinkCount = @ + 1], obs)
    \/ /\ store.app.sleepDuration = 0
       /\ AppAction("useAppStore.updateSleepDuration", [store.app EXCEPT !.sleepDuration = 2500], obs)
    \/ initializeCamera
    \/ stopCamera
    \/ CameraAction("endSession", endSession(store, now), obs)

InitSession == InitBuilt /\ hand = NoInput /\ focus = "session"

SpecSession == InitSession /\ [][SessionNext]_vars

InitFace == InitBuilt /\ hand = NoInput /\ focus = "face"

SpecFace == InitFace /\ [][FaceNext]_vars

InitPause == InitBuilt /\ hand = NoInput /\ focus = "pause"

\* The camera keeps delivering frames and time keeps passing.
SpecPause ==
    InitPause /\ [][PauseNext]_vars /\ WF_vars(PauseTick) /\ WF_vars(HandFrame(PalmResults))

InitSetter == InitBuilt /\ hand = NoInput /\ focus = "setters"

SpecSetter == InitSetter /\ [][SetterNext]_vars

InitDegenerate == InitBuilt /\ hand = NoInput /\ focus = "degenerate"

SpecDegenerate == InitDegenerate /\ [][DegenerateNext]_vars

InitShort == InitBuilt /\ hand = NoInput /\ focus = "short"

SpecShort == InitShort /\ [][ShortNext]_vars

\* The bounded histories: a behaviour feeds frames to the eye gesture
\* detector, to the mouth gesture detector, eye states to the fatigue detector
\* (at most one frame of the history with an eye closed) or head heights to it.
HistoryNext ==
    \/ focus = "eyeGesture" /\ \E f \in EyeFaces : EyeGestureDetector_detect(f)
    \/ focus = "eyeGesture" /\ \E f \in EyeFaces : EyeGestureDetector_detectIntentionalWink(f)
    \/ focus = "mouthGesture" /\ \E f \in MouthFaces : MouthGestureDetector_detect(f)
    \/ /\ focus = "fatigueEye"
       /\ \E l, r \in BOOLEAN :
            /\ (l /\ r) \/ \A i \in DOMAIN fat.leftEyeHistory :
                               fat.leftEyeHistory[i] /\ fat.rightEyeHistory[i]
            /\ FatigueDetector_processEyeState(l, r)
    \/ focus = "fatigueHead" /\ \E y \in HeadHeights : FatigueDetector_processHeadPosition(y)
    \/ focus \in {"fatigueEye", "fatigueHead"} /\ FatigueDetector_reset

InitHistory ==
    /\ InitBuilt
    /\ hand = NoInput
    /\ focus \in {"eyeGesture", "mouthGesture", "fatigueEye", "fatigueHead"}

SpecHistory == InitHistory /\ [][HistoryNext]_vars

\* The clock of a detector that has been in use for some hours.
ScoreNow == 10000 * StartTime

\* Detector states after a stretch of use: n blinks of d ms two seconds apart
\* in the last minute, k closed frames among the last 30, y yawns, h droop
\* events under a head that stays low, and a session s ms old (0: no session).
UsedDetector(n, d, k, y, h, s) ==
    [FatInit EXCEPT
       !.blinkTimestamps = [i \in 1..n |-> ScoreNow - 1000 - 2000 * (n - i)],
       !.blinkDurations = [i \in 1..n |-> d],
       !.leftEyeHistory = [i \in 1..eyeHistoryMaxLength |-> i > k],
       !.rightEyeHistory = [i \in 1..eyeHistoryMaxLength |-> i > k],
       !.yawnCount = y,
       !.lastYawnTime = IF y = 0 THEN 0 ELSE ScoreNow - 60000,
       !.mouthOpenStart = IF y = 0 THEN 0 ELSE ScoreNow - 63000,
       !.headDroopEvents = h,
       !.headYBaseline = IF h = 0 THEN NULL ELSE 0,
       !.headYHistory = IF h = 0 THEN <<>> ELSE [i \in 1..60 |-> 450],
       !.sessionStartTime = IF s = 0 THEN NULL ELSE ScoreNow - s,
       !.lastBreakTime = IF s = 0 THEN NULL ELSE ScoreNow - s]

UsedDetectors ==
    {UsedDetector(n, d, k, y, h, s) :
       n \in {0, 4, 14, 21, 27}, d \in {200, 350, 450}, k \in {0, 3, 4, 5, 7},
       y \in {0, 1, 3, 300}, h \in {0, 1, 2, 500},
       s \in {0, 30 * 60 * 1000, 90 * 60 * 1000, 150 * 60 * 1000}}

\* The score and the state of a detector that has been in use.
InitScore ==
    /\ InitObjects
    /\ now = ScoreNow
    /\ fat \in UsedDetectors
    /\ hand = NoInput
    /\ focus = "score"

ScoreNext ==
    \/ FatigueDetector_getMetrics
    \/ FatigueDetector_calculateFatigueScore
    \/ FatigueDetector_getFatigueState

SpecScore == InitScore /\ [][ScoreNext]_vars

\* The two counters: a behaviour drives either the blink detector or the hand
\* pipeline with the store.
InitCounters == InitBuilt /\ hand = NoInput /\ focus \in {"blink", "hand"}

CountersNext ==
    \/ focus = "blink" /\ BlinkNext
    \/ focus = "hand" /\ HandNext

SpecCounters == InitCounters /\ [][CountersNext]_vars

(***************************************************************************)
(* Properties.                                                             *)
(***************************************************************************)

\* C1: on a detect frame with the eyes closed (avgEAR below the threshold)
\* blinkCount does not change; on a frame with the eyes not closed blinkCount
\* grows by exactly 1 when the run of closed frames that it ends had at least
\* CONSEC_FRAMES frames and by 0 when it had fewer, and the frame counter is 0
\* afterwards.  obs.closedRun is the length N of the run, counted from the
\* results the detector returned.
C1_BlinkCountedOnReopen ==
    [][op' = "BlinkDetector.detect" =>
         IF ret'.isBlinking
         THEN blink'.blinkCount = blink.blinkCount
         ELSE /\ blink'.blinkCount
                   = blink.blinkCount + (IF obs.closedRun >= CONSEC_FRAMES THEN 1 ELSE 0)
              /\ blink'.frameCounter = 0]_vars

\* A frame with open eyes has just ended a run of two or more closed frames.
C1_Witness ==
    /\ op = "BlinkDetector.detect"
    /\ ~ret.isBlinking
    /\ obs.endedRun >= CONSEC_FRAMES
    /\ blink.blinkCount = 1

\* C2: a poll of detectHeldGesture returns a gesture only if it is the one
\* classified at this poll and consecutive polls have classified it for at least
\* MIN_HOLD_TIME; a poll less than GESTURE_COOLDOWN after the last fire returns
\* null, so two fires are at least GESTURE_COOLDOWN apart; and a poll at which
\* a run of identical classifications that began outside the cooldown has lasted
\* MIN_HOLD_TIME, with no fire and no reset() in it so far, returns the gesture.
C2_HoldFiresThenCooldown ==
    [][op' = "GestureRecognizer.detectHeldGesture" =>
         LET g == obs'.runGesture
             held == now' - obs'.runStart
             cooling == obs.lastFire # NULL /\ now' - obs.lastFire < GESTURE_COOLDOWN
         IN  /\ ret' # "null" => ret' = g /\ held >= gr.MIN_HOLD_TIME
             /\ cooling => ret' = "null"
             /\ ret' # "null" /\ obs.lastFire # NULL
                  => now' - obs.lastFire >= GESTURE_COOLDOWN
             /\ /\ obs'.runClean
                /\ g # "null"
                /\ held >= gr.MIN_HOLD_TIME
                /\ obs.lastFire = NULL \/ obs'.runStart - obs.lastFire >= GESTURE_COOLDOWN
                => ret' = g]_vars

\* A poll inside the cooldown returned null although the gesture that had just
\* fired was still held.
C2_Witness ==
    /\ op = "GestureRecognizer.detectHeldGesture"
    /\ ret = "null"
    /\ obs.lastFire # NULL
    /\ now - obs.lastFire < GESTURE_COOLDOWN
    /\ obs.firesInRun = 1
    /\ obs.runClean

\* C3: while every poll classifies the same gesture (one run, no reset() in
\* it) the recognizer returns that gesture at most once.
C3_NoRepeatFireWhileHeld == obs.runClean => obs.firesInRun <= 1

\* C4: getCurrentSleepDuration changes nothing and returns the summed length
\* of the completed sleep episodes plus, while an episode is open, the time
\* since its first sleeping detect(); as time passes the value grows by exactly
\* the elapsed time while the detector is sleeping and not at all while it is
\* not.  Episodes are counted from the isSleeping results detect() returned
\* (obs.sleepDone, obs.sleepOpen), starting afresh at reset().
C4_SleepDurationQuery ==
    [][/\ op' = "SleepDetector.getCurrentSleepDuration" =>
            /\ sleep' = sleep
            /\ now' = now
            /\ ret' = obs.sleepDone
                      + (IF obs.sleepOpen # NULL THEN now - obs.sleepOpen ELSE 0)
       /\ op' = "tick" =>
            getCurrentSleepDuration(sleep', now')
              = getCurrentSleepDuration(sleep, now)
                + (IF obs.sleeping THEN now' - now ELSE 0)]_vars

\* A query in the middle of a sleep episode, after an earlier episode has ended.
C4_Witness ==
    /\ op = "SleepDetector.getCurrentSleepDuration"
    /\ obs.sleeping
    /\ obs.sleepDone > 0
    /\ now > obs.sleepOpen
    /\ ret = obs.sleepDone + (now - obs.sleepOpen)

C9_CountersOnlyGrow ==
    [][/\ IF op' = "BlinkDetector.resetBlinkCount"
          THEN blink'.blinkCount = 0
          ELSE blink'.blinkCount >= blink.blinkCount
       /\ store'.stats.gestureCount >= store.stats.gestureCount
       /\ store'.stats.gestureCount
            = store.stats.gestureCount
              + (IF op' = "handleHandResults" /\ ret' # "null" THEN 1 ELSE 0)]_vars

\* A held gesture fired during a session and was counted.
C9_Witness ==
    /\ op = "handleHandResults"
    /\ ret # "null"
    /\ store.stats.gestureCount = 1
    /\ store.stats.sessionStartTime # NULL

\* C6: on a frame where the means of the raw left and right EAR values of the
\* last HISTORY_SIZE frames are equal, the EyeState computed by detect has
\* neither isWinkingLeft nor isWinkingRight, and detectIntentionalWink leaves a
\* wink timer that was not running not running.
C6_NoWinkOnEqualEAR ==
    [][/\ op' \in {"EyeGestureDetector.detect", "EyeGestureDetector.detectIntentionalWink"}
       /\ SumSeq(obs'.rawL) = SumSeq(obs'.rawR)
       => /\ ~obs'.eyeState.isWinkingLeft
          /\ ~obs'.eyeState.isWinkingRight
          /\ eye.leftWinkStartTime = NULL => eye'.leftWinkStartTime = NULL
          /\ eye.rightWinkStartTime = NULL => eye'.rightWinkStartTime = NULL]_vars

\* A frame with the left eye open and the right eye closed brought the two
\* smoothed values level, and detectIntentionalWink ended a left wink on it.
C6_Witness ==
    /\ op = "EyeGestureDetector.detectIntentionalWink"
    /\ ret = "left"
    /\ SumSeq(obs.rawL) = SumSeq(obs.rawR)
    /\ obs.rawL[Len(obs.rawL)] > obs.rawR[Len(obs.rawR)]
    /\ obs.eyeState.leftEAR = obs.eyeState.rightEAR
    /\ eye.rightWinkStartTime = NULL

\* C8: calibrate(L) leaves the calibration calibrated, centred on the nose of L,
\* with the smoothed position at 0, and returns it; a track(L) that
\* immediately follows calibrate(L) with the same landmarks returns x = 0 and
\* y = 0, whatever the calibration, the smoothing factor and the smoothed
\* position were before.
C8_CalibrationRoundTrip ==
    [][/\ op' = "HeadTracker.calibrate" =>
            /\ tracker'.calibration.isCalibrated
            /\ tracker'.calibration.centerX = obs'.lastNose.x
            /\ tracker'.calibration.centerY = obs'.lastNose.y
            /\ ret' = tracker'.calibration
       /\ op = "HeadTracker.calibrate" /\ op' = "HeadTracker.track" /\ obs'.lastNose = obs.lastNose =>
            /\ ret'.x = 0
            /\ ret'.y = 0]_vars

\* A round trip on a face away from the default centre, made while the smoothed
\* position was away from 0 and the smoothing factor was not the default one.
C8_Witness ==
    /\ op = "HeadTracker.track"
    /\ obs.roundTrip
    /\ obs.offCentreBefore
    /\ obs.lastNose # NoseCentre
    /\ tracker.smoothingFactor = 500
    /\ ret.x = 0
    /\ ret.y = 0

\* C10 as stated: no step other than reset() and startSession() lowers
\* yawnCount or headDroopEvents.
C10_OnlyResetLowers ==
    [][op' \notin {"FatigueDetector.reset", "FatigueDetector.startSession"}
       => /\ fat'.yawnCount >= fat.yawnCount
          /\ fat'.headDroopEvents >= fat.headDroopEvents]_vars

\* C10, amended: no step other than reset(), startSession() and recordBreak()
\* lowers yawnCount or headDroopEvents, and recordBreak() takes 2 off yawnCount
\* and 1 off headDroopEvents, stopping at 0.
C10_OnlyResetOrBreakLowers ==
    [][/\ op' \notin {"FatigueDetector.reset", "FatigueDetector.startSession",
                      "FatigueDetector.recordBreak"}
          => /\ fat'.yawnCount >= fat.yawnCount
             /\ fat'.headDroopEvents >= fat.headDroopEvents
       /\ op' = "FatigueDetector.recordBreak"
          => /\ fat'.yawnCount = Max(0, fat.yawnCount - 2)
             /\ fat'.headDroopEvents = Max(0, fat.headDroopEvents - 1)]_vars

\* recordBreak() was called after three yawns and left one.
C10_Witness ==
    /\ op = "FatigueDetector.recordBreak"
    /\ obs.countsBefore[1] = 3
    /\ fat.yawnCount = 1

\* C5: the score calculateFatigueScore computes from the detector's metrics is
\* within 0..100, also with yawnCount and headDroopEvents replaced by any of
\* 0..4 and 1000, and with the other metrics as they are it does not fall
\* when yawnCount or headDroopEvents is replaced by a larger value.
C5_ScoreBoundedMonotone ==
    LET m == getMetrics(fat, now)
        counts == (0..4) \cup {1000, m.yawnCount, m.headDroopEvents}
        score(y, h) == FatigueScore([m EXCEPT !.yawnCount = y, !.headDroopEvents = h])
    IN  /\ calculateFatigueScore(fat, now) \in 0..100
        /\ op = "FatigueDetector.calculateFatigueScore" => ret \in 0..100
        /\ \A y \in counts, h \in counts :
             /\ score(y, h) \in 0..100
             /\ \A z \in counts : z >= y => /\ score(z, h) >= score(y, h)
                                            /\ score(h, z) >= score(h, y)

\* The score of a detector with many yawns and droop events, long blinks and
\* a long session was returned; its points add up to more than 100.
C5_Witness ==
    /\ op = "FatigueDetector.calculateFatigueScore"
    /\ ret = 100
    /\ fat.yawnCount = 300
    /\ fat.headDroopEvents = 500
    /\ getMetrics(fat, now).avgBlinkDuration > 1000 * LONG_BLINK_DURATION
    /\ getMetrics(fat, now).sessionDuration > 2 * 60 * 60 * 1000

C12_BreakDueLatched ==
    op = "FatigueDetector.getFatigueState" /\ obs.breakDue => ret.shouldTakeBreak

\* C13: getFatigueState returns shouldTakeBreak exactly when the time since the
\* last recordBreak() or startSession() (obs.lastBreak; no time at all when
\* neither has been called) is at least breakInterval or the fatigue score is
\* >= 60; timeUntilBreak is max(0, breakInterval - that time); level is fresh
\* below 20, mild below 40, moderate below 60 and severe from 60, so that
\* severe implies shouldTakeBreak.
C13_FatigueState ==
    op = "FatigueDetector.getFatigueState" =>
        LET score == calculateFatigueScore(fat, now)
            since == IF obs.lastBreak = NULL THEN 0 ELSE now - obs.lastBreak
        IN  /\ ret.score = score
            /\ ret.shouldTakeBreak <=> (since >= fat.breakInterval \/ score >= 60)
            /\ ret.timeUntilBreak = Max(0, fat.breakInterval - since)
            /\ ret.level = "fresh" <=> score < 20
            /\ ret.level = "mild" <=> score >= 20 /\ score < 40
            /\ ret.level = "moderate" <=> score >= 40 /\ score < 60
            /\ ret.level = "severe" <=> score >= 60
            /\ ret.level = "severe" => ret.shouldTakeBreak

\* A break is due by the clock alone: the score is below 60, a break was
\* recorded after the session started, and a full interval has passed since.
C13_Witness ==
    /\ op = "FatigueDetector.getFatigueState"
    /\ ret.shouldTakeBreak
    /\ ret.score < 60
    /\ ret.timeUntilBreak = 0
    /\ fat.sessionStartTime # NULL
    /\ obs.lastBreak > fat.sessionStartTime
    /\ now - obs.lastBreak >= fat.breakInterval

\* A break is due by the score alone: severe, with time left on the clock.
C13_WitnessSevere ==
    /\ op = "FatigueDetector.getFatigueState"
    /\ ret.level = "severe"
    /\ ret.shouldTakeBreak
    /\ ret.timeUntilBreak > 0

\* h2 is h with one sample added under the cap: appended, and the oldest
\* sample removed if h was full.
HistoryAdded(h, h2, cap) ==
    /\ Len(h2) = Min(Len(h) + 1, cap)
    /\ SubSeq(h2, 1, Len(h2) - 1) = (IF Len(h) < cap THEN h ELSE Tail(h))

\* C14: every bounded history stays within its cap and evicts oldest-first.
\* EyeGestureDetector's two EAR histories have equal length <= 5,
\* MouthGestureDetector's openness history has length <= 5, FatigueDetector's
\* two eye histories have equal length <= 30 and its headYHistory has length
\* <= 60; a call that adds a sample appends it while the history is below its
\* cap and from then on appends it and removes exactly the oldest sample.
C14_HistoriesCapped ==
    [][/\ Len(eye'.leftEARHistory) = Len(eye'.rightEARHistory)
       /\ Len(eye'.leftEARHistory) <= HISTORY_SIZE
       /\ Len(mouth'.opennessHistory) <= 5
       /\ Len(fat'.leftEyeHistory) = Len(fat'.rightEyeHistory)
       /\ Len(fat'.leftEyeHistory) <= 30
       /\ Len(fat'.headYHistory) <= 60
       /\ op' \in {"EyeGestureDetector.detect", "EyeGestureDetector.detectIntentionalWink"} =>
                /\ HistoryAdded(eye.leftEARHistory, eye'.leftEARHistory, 5)
                /\ HistoryAdded(eye.rightEARHistory, eye'.rightEARHistory, 5)
                /\ eye'.leftEARHistory[Len(eye'.leftEARHistory)] = obs'.rawL[Len(obs'.rawL)]
                /\ eye'.rightEARHistory[Len(eye'.rightEARHistory)] = obs'.rawR[Len(obs'.rawR)]
       /\ op' = "MouthGestureDetector.detect" =>
                HistoryAdded(mouth.opennessHistory, mouth'.opennessHistory, 5)
       /\ op' = "FatigueDetector.processEyeState" =>
                /\ HistoryAdded(fat.leftEyeHistory, fat'.leftEyeHistory, 30)
                /\ HistoryAdded(fat.rightEyeHistory, fat'.rightEyeHistory, 30)
       /\ op' = "FatigueDetector.processHeadPosition" =>
                /\ HistoryAdded(fat.headYHistory, fat'.headYHistory, 60)
                /\ fat'.headYHistory[Len(fat'.headYHistory)] = obs'.lastHeadY]_vars

\* The fatigue detector's eye histories are full and have evicted a frame: the
\* one frame with a closed eye has moved towards the front.
C14_Witness ==
    /\ op = "FatigueDetector.processEyeState"
    /\ Len(fat.leftEyeHistory) = 30
    /\ obs.eyeFrames > 30
    /\ \E i \in 1..29 : ~fat.leftEyeHistory[i]

\* The head-height history is full and has evicted a reading.
C14_WitnessHead ==
    /\ op = "FatigueDetector.processHeadPosition"
    /\ Len(fat.headYHistory) = 60
    /\ obs.headFrames > 60

\* The openness history is full and has evicted its oldest sample.
C14_WitnessMouth ==
    /\ op = "MouthGestureDetector.detect"
    /\ Len(mouth.opennessHistory) = 5
    /\ mouth.opennessHistory[1] # mouth.opennessHistory[5]

\* C15: a call of HeadTracker.track or HeadTracker.calibrate with a landmark
\* array shorter than the largest index the call reads (obs.shortInput) ends in
\* an error and leaves the tracker exactly as it was before the call.
C15_ShortInputLeavesState ==
    [][op' \in {"HeadTracker.track", "HeadTracker.calibrate"} /\ obs'.shortInput
       => ret' = "TypeError" /\ tracker' = tracker]_vars

\* C16: setHoldTime clamps or rejects an invalid hold time, so that after any
\* sequence of setHoldTime calls the hold progress is a number within [0, 1],
\* never NaN.
C16_HoldProgressDefined ==
    op = "GestureRecognizer.getHoldProgress" => ret # NaN /\ ret \in 0..1000

\* C17: the head pitch falls back to 0 when its reference distance, the face
\* height, is 0: SleepDetector.detect on a face whose forehead and chin are on
\* one line (obs.flatFace) reports headPitch 0 and does not see the head down.
C17_FlatFacePitchZero ==
    op = "SleepDetector.detect" /\ obs.flatFace => ret.headPitch = 0 /\ ~ret.isHeadDown

\* C18 as stated: the calibration record changes only when calibrate() is
\* called; every other operation of the tracker leaves it unchanged.
C18_OnlyCalibrateWrites ==
    [][op' # "HeadTracker.calibrate" => tracker'.calibration = tracker.calibration]_vars

\* C18, amended: the calibration record changes only when calibrate() or
\* setCalibration() is called; track(), setSmoothing() and reset() leave it
\* unchanged, and setCalibration(c) replaces it by c.
C18_OnlyCalibrateOrSetWrites ==
    [][/\ op' \notin {"HeadTracker.calibrate", "HeadTracker.setCalibration"}
            => tracker'.calibration = tracker.calibration
       /\ op' = "HeadTracker.setCalibration" => tracker'.calibration = SavedCalibration]_vars

\* A calibration put in place by setCalibration has come through track() calls
\* that moved the smoothed position, and a reset().
C18_Witness ==
    /\ op = "HeadTracker.reset"
    /\ tracker.calibration = SavedCalibration
    /\ obs.trackCalls > 1
    /\ obs.lastNose # NoseCentre

\* C19: the two frame counters of SleepDetector are independent decaying
\* counters.  On each detect, eyeClosedFrames grows by exactly 1 if the eyes are
\* closed on the frame (average EAR below 0.21) and becomes
\* max(0, eyeClosedFrames - 2) otherwise; headDownFrames does the same on
\* pitch > 0.25 alone; both are never negative, and a frame that is not closed
\* (not head-down) takes a counter above 2 down by 2, not to 0.
C19_DecayingCounters ==
    [][/\ sleep'.eyeClosedFrames >= 0
       /\ sleep'.headDownFrames >= 0
       /\ op' = "SleepDetector.detect" =>
            /\ sleep'.eyeClosedFrames = (IF obs'.eyesClosed
                                         THEN sleep.eyeClosedFrames + 1
                                         ELSE Max(0, sleep.eyeClosedFrames - 2))
            /\ sleep'.headDownFrames = (IF ret'.headPitch > PITCH_THRESHOLD
                                        THEN sleep.headDownFrames + 1
                                        ELSE Max(0, sleep.headDownFrames - 2))
            /\ ret'.isHeadDown <=> ret'.headPitch > PITCH_THRESHOLD
            /\ ret'.eyeClosedDuration = sleep'.eyeClosedFrames
            /\ ret'.headDownDuration = sleep'.headDownFrames
            /\ ~obs'.eyesClosed /\ sleep.eyeClosedFrames > 2 => sleep'.eyeClosedFrames > 0
            /\ ~ret'.isHeadDown /\ sleep.headDownFrames > 2 => sleep'.headDownFrames > 0]_vars

\* An open-eyed, head-down frame after a long closure: the eye counter has
\* decayed by 2 from above 2 while the head counter went on growing.
C19_Witness ==
    /\ op = "SleepDetector.detect"
    /\ ~obs.eyesClosed
    /\ ret.isHeadDown
    /\ sleep.eyeClosedFrames >= 3
    /\ sleep.headDownFrames > sleep.eyeClosedFrames + 2

\* C20: the sleep score returned by SleepDetector.detect is within [0, 100],
\* and while headDownFrames is 0 it does not exceed 60, the most the eyes
\* contribute, however long the eyes have been closed.
C20_SleepScoreBlend ==
    op = "SleepDetector.detect" =>
        /\ ret.sleepScore \in 0..100
        /\ sleep.headDownFrames = 0 => ret.sleepScore <= 60

\* C21: processMouthState raises yawnCount, by 1, only on a call at which the
\* mouth has been open with a ratio above 0.6 on every call for at least 2000 ms
\* (obs.wideSince), and more than 5000 ms after the call that raised it last
\* (obs.lastYawn); a call with the mouth closed or the ratio at most 0.6 puts
\* the measured duration back to 0, and no other operation raises yawnCount.
C21_YawnOnlyAfterLongOpening ==
    [][/\ op' # "FatigueDetector.processMouthState" => fat'.yawnCount <= fat.yawnCount
       /\ op' = "FatigueDetector.processMouthState" =>
            /\ fat'.yawnCount \in {fat.yawnCount, fat.yawnCount + 1}
            /\ fat'.yawnCount > fat.yawnCount =>
                 /\ obs'.wideSince # NULL
                 /\ now - obs'.wideSince >= YAWN_DURATION_THRESHOLD
                 /\ obs.lastYawn # NULL => now - obs.lastYawn > 5000
            /\ obs'.wideSince = NULL => fat'.mouthOpenDuration = 0
            /\ obs'.wideSince # NULL => fat'.mouthOpenDuration = now - obs'.wideSince]_vars

\* A second yawn is counted, six seconds after the first, at the end of an
\* opening that began after the first.
C21_Witness ==
    /\ op = "FatigueDetector.processMouthState"
    /\ fat.yawnCount = 2
    /\ obs.lastYawn = now
    /\ obs.wideSince > YawnStart + 2000
    /\ now - obs.wideSince >= YAWN_DURATION_THRESHOLD

\* C22: processEyeState records a blink, one entry appended to blinkTimestamps
\* and to blinkDurations, only on a call without both eyes closed that follows
\* a run of calls with both eyes closed (obs.closedSince) lasting 50 to 500 ms
\* from its first call; a closure shorter than 50 ms or longer than 500 ms
\* leaves both lists, the blink rate and the average blink duration as they
\* were; every stored duration is within [50, 500]; no other operation adds a
\* blink.
C22_BlinkRecordedInRange ==
    [][/\ op' # "FatigueDetector.processEyeState" =>
            Len(fat'.blinkTimestamps) <= Len(fat.blinkTimestamps)
       /\ \A i \in DOMAIN fat'.blinkDurations : fat'.blinkDurations[i] \in 50..500
       /\ Len(fat'.blinkTimestamps) = Len(fat'.blinkDurations)
       /\ op' = "FatigueDetector.processEyeState" =>
            IF /\ obs.closedSince # NULL
               /\ obs'.closedSince = NULL
               /\ now - obs.closedSince \in 50..500
            THEN /\ fat'.blinkTimestamps = Append(fat.blinkTimestamps, now)
                 /\ fat'.blinkDurations = Append(fat.blinkDurations, now - obs.closedSince)
            ELSE /\ fat'.blinkTimestamps = fat.blinkTimestamps
                 /\ fat'.blinkDurations = fat.blinkDurations
                 /\ getBlinkRate(fat', now) = getBlinkRate(fat, now)
                 /\ getAverageBlinkDuration(fat') = getAverageBlinkDuration(fat)]_vars

\* A blink of 500 ms is recorded at the end of a closure seen on two calls,
\* measured from the first of them.
C22_Witness ==
    /\ op = "FatigueDetector.processEyeState"
    /\ fat.blinkDurations = <<500>>
    /\ fat.blinkTimestamps = <<now>>
    /\ fat.leftEyeHistory = <<FALSE, FALSE, TRUE>>
    /\ fat.rightEyeHistory \in {<<FALSE, FALSE, TRUE>>, <<FALSE, FALSE, FALSE>>}

\* A closure of 750 ms has ended and was discarded.
C22_WitnessDiscarded ==
    /\ op = "FatigueDetector.processEyeState"
    /\ fat.blinkDurations = <<>>
    /\ now = StartTime + 750
    /\ fat.leftEyeHistory = <<FALSE, TRUE>>
    /\ fat.rightEyeHistory = <<FALSE, TRUE>>
    /\ fat.lastBlinkStart = NULL

\* The mean, in thousandths of a millisecond, of the durations of the recorded
\* blinks that ended after the cutoff; the 200 ms default when there are none.
AverageDurationSince(f, cutoff) ==
    LET recent == {i \in DOMAIN f.blinkTimestamps : f.blinkTimestamps[i] > cutoff}
        RECURSIVE Total(_)
        Total(S) == IF S = {} THEN 0
                    ELSE LET i == CHOOSE j \in S : TRUE
                         IN  f.blinkDurations[i] + Total(S \ {i})
    IN  IF recent = {} THEN 1000 * NORMAL_BLINK_DURATION
        ELSE (1000 * Total(recent)) \div Cardinality(recent)

\* C23: the metrics count in blinkRate exactly the recorded blinks that ended
\* within the 60 s before the query, and average in avgBlinkDuration only the
\* blinks that ended within the 2 minutes before the query, with the 200 ms
\* default when there are none.
C23_TrailingWindows ==
    op = "FatigueDetector.getMetrics" =>
        /\ ret.blinkRate = Cardinality({i \in DOMAIN fat.blinkTimestamps :
                                          fat.blinkTimestamps[i] > now - 60000})
        /\ ret.avgBlinkDuration = AverageDurationSince(fat, now - 120000)

\* The newest reading of the head history droops below the baseline and the
\* nine readings before it are at the baseline.
IsolatedDroop(f) ==
    LET h == f.headYHistory
    IN  /\ f.headYBaseline # NULL
        /\ Len(h) >= 10
        /\ h[Len(h)] - f.headYBaseline > HEAD_DROOP_THRESHOLD
        /\ \A i \in (Len(h) - 9)..(Len(h) - 1) : h[i] = f.headYBaseline

\* C24: processHeadPosition counts a head droop only when it is sustained: a
\* call whose reading droops below the baseline while the nine readings before
\* it are at the baseline leaves headDroopEvents as it was.
C24_IsolatedDroopNotCounted ==
    [][(op' = "FatigueDetector.processHeadPosition" /\ IsolatedDroop(fat'))
          => fat'.headDroopEvents = fat.headDroopEvents]_vars

\* A droop is counted only with a baseline taken from 30 readings, on a
\* reading more than 0.15 below it whose trailing ten readings average more
\* than 0.12 below it.
DroopCountedOnlyWhenMeanDroops ==
    [][fat'.headDroopEvents > fat.headDroopEvents
          => LET h == fat'.headYHistory
             IN  /\ op' = "FatigueDetector.processHeadPosition"
                 /\ fat'.headDroopEvents = fat.headDroopEvents + 1
                 /\ Len(fat.headYHistory) >= 30
                 /\ fat'.headYBaseline # NULL
                 /\ h[Len(h)] - fat'.headYBaseline > 150
                 /\ SumSeq(SubSeq(h, Len(h) - 9, Len(h))) - 10 * fat'.headYBaseline > 1200]_vars

\* C25: detectIntentionalWink returns "left" (resp. "right") exactly on the
\* poll at which the left (resp. right) wink condition stops holding after
\* having held since a first poll 100 to 500 ms earlier; other polls return
\* null, and the start time of a wink that is not holding is cleared.
C25_WinkReportedOnceInWindow ==
    [][op' = "EyeGestureDetector.detectIntentionalWink" =>
          /\ ret' = "left" <=> /\ obs.leftWinkSince # NULL
                               /\ ~obs'.eyeState.isWinkingLeft
                               /\ ValidWink(now - obs.leftWinkSince)
          /\ ret' = "right" <=> /\ obs.rightWinkSince # NULL
                                /\ ~obs'.eyeState.isWinkingRight
                                /\ ValidWink(now - obs.rightWinkSince)
          /\ ~obs'.eyeState.isWinkingLeft => eye'.leftWinkStartTime = NULL
          /\ ~obs'.eyeState.isWinkingRight => eye'.rightWinkStartTime = NULL]_vars

\* The same for the left wink alone.
WinkLeftReportedOnceInWindow ==
    [][op' = "EyeGestureDetector.detectIntentionalWink" =>
          /\ ret' = "left" <=> /\ obs.leftWinkSince # NULL
                               /\ ~obs'.eyeState.isWinkingLeft
                               /\ ValidWink(now - obs.leftWinkSince)
          /\ ~obs'.eyeState.isWinkingLeft => eye'.leftWinkStartTime = NULL
          /\ ~obs'.eyeState.isWinkingRight => eye'.rightWinkStartTime = NULL]_vars

\* C26: a poll of detectHeldGesture that classifies a gesture other than the
\* previous poll's leaves no hold time standing (the timer, if one runs,
\* starts at that poll), and a poll returns a gesture only if it is the one
\* classified at it and every poll has classified it for at least
\* MIN_HOLD_TIME, counted from the later of the first poll of that run and the
\* end of the cooldown of the fire before.
C26_HoldNotCarriedOver ==
    [][op' = "GestureRecognizer.detectHeldGesture" =>
         /\ obs'.runGesture # obs.runGesture
              => /\ gr'.gestureHoldTime = 0
                 /\ gr'.gestureStartTime \in {NULL, now'}
         /\ ret' # "null"
              => /\ ret' = obs'.runGesture
                 /\ now' - obs'.runStart >= gr.MIN_HOLD_TIME
                 /\ obs.lastFire # NULL
                      => now' - (obs.lastFire + GESTURE_COOLDOWN) >= gr.MIN_HOLD_TIME]_vars

\* A gesture has fired on a run of polls that began while the hold timer of
\* another gesture was running.
C26_Witness ==
    /\ op = "GestureRecognizer.detectHeldGesture"
    /\ ret # "null"
    /\ obs.heldBefore
    /\ now - obs.runStart >= MIN_HOLD_TIME

FingerNames == {"thumb", "index", "middle", "ring", "pinky"}

\* A right hand with exactly the fingers of the set raised, the thumb tip
\* above the wrist.
RaisedHand(raised) ==
    LET tip(f) == IF f \in raised THEN 4000 ELSE 5000
        pip(f) == IF f \in raised THEN 5000 ELSE 4000
        four == <<"index", "middle", "ring", "pinky">>
    IN  HandOf([thumbX |-> tip("thumb"), ipX |-> pip("thumb"), thumbY |-> 4000, wristY |-> 5000,
                tipY |-> [k \in 1..4 |-> tip(four[k])], pipY |-> [k \in 1..4 |-> pip(four[k])]])

CountName(n) ==
    CASE n = 1 -> "oneFingers"
      [] n = 2 -> "twoFingers"
      [] n = 3 -> "threeFingers"
      [] n = 4 -> "fourFingers"
      [] n = 5 -> "fiveFingers"

\* The gesture the decision table names for a set of raised fingers.
TableGesture(raised, thumbAboveWrist) ==
    CASE raised = {} -> "fist"
      [] raised = {"thumb"} -> IF thumbAboveWrist THEN "thumbsUp" ELSE "thumbsDown"
      [] raised = {"index"} -> "pointUp"
      [] raised = {"index", "middle"} -> "peaceSign"
      [] raised = {"index", "middle", "ring"} -> "threeFingers"
      [] raised = {"index", "middle", "ring", "pinky"} -> "fourFingers"
      [] raised = FingerNames -> "openPalm"
      [] raised = {"index", "pinky"} -> "rockSign"
      [] raised = {"thumb", "pinky"} -> "callMe"
      [] OTHER -> CountName(Cardinality(raised))

\* The numeric names some set of raised fingers is recognized as.
NumericNamesReturned ==
    {n \in 1..5 : \E raised \in SUBSET FingerNames :
                     recognize(RaisedHand(raised), TRUE).gesture = CountName(n)}

\* recognize has returned the gesture of the decision table, and not null.
RecognizedByTable ==
    op = "GestureRecognizer.recognize" =>
        /\ ret.gesture = TableGesture({f \in FingerNames : ret.fingerStates[f]},
                                      hand.landmarks[4].y < hand.landmarks[0].y)
        /\ ret.gesture # "null"
        /\ ret.fingerCount = Cardinality({f \in FingerNames : ret.fingerStates[f]})

\* C27 as stated: recognize returns the gesture of the decision table, never
\* null, and each numeric name from oneFingers to fiveFingers is returned for
\* some finger vector.
C27_TableWithFiveNumerics == RecognizedByTable /\ NumericNamesReturned = 1..5

\* What recognize does return: the gesture of the decision table, the numeric
\* names oneFingers to fourFingers each for some finger vector, and
\* fiveFingers for none, all five fingers being the open palm.
TableWithFourNumerics ==
    /\ RecognizedByTable
    /\ NumericNamesReturned = 1..4
    /\ op = "GestureRecognizer.recognize" => ret.gesture # "fiveFingers"

\* A ratio of thousandths cut to [-1, 1].
CutToUnit(q) == IF q > 1000 THEN 1000 ELSE IF q < 0 - 1000 THEN 0 - 1000 ELSE q

\* C28: track returns as x and y the smoothed position, which is the old
\* smoothed value times the factor plus (1 - factor) times the raw position
\* clamped to [-1, 1]; setSmoothing keeps the factor in [0, 1]; and the
\* returned x and y are in [-1, 1].
C28_PositionInRange ==
    [][/\ tracker'.smoothingFactor >= 0 /\ tracker'.smoothingFactor <= 1000
       /\ op' = "HeadTracker.track" =>
            LET c == tracker.calibration
                k == tracker.smoothingFactor
                rawX == CutToUnit(Quot((obs'.lastNose.x - c.centerX) * 1000, c.rangeX))
                rawY == CutToUnit(Quot((obs'.lastNose.y - c.centerY) * 1000, c.rangeY))
            IN  /\ ret'.x = Quot(tracker.smoothedX * k + rawX * (1000 - k), 1000)
                /\ ret'.y = Quot(tracker.smoothedY * k + rawY * (1000 - k), 1000)
                /\ ret'.x = tracker'.smoothedX /\ ret'.y = tracker'.smoothedY
                /\ ret'.x >= 0 - 1000 /\ ret'.x <= 1000
                /\ ret'.y >= 0 - 1000 /\ ret'.y <= 1000]_vars

\* track has returned x = 1 for a nose 1.2 ranges right of the calibrated
\* centre, with no smoothing.
C28_Witness ==
    /\ op = "HeadTracker.track"
    /\ tracker.smoothingFactor = 0
    /\ obs.lastNose.x - tracker.calibration.centerX > tracker.calibration.rangeX
    /\ ret.x = 1000

\* C29: when the break-interval setting changes while the camera is active,
\* the fatigue detector changes in its break interval only: its counters, blink
\* records, histories, head baseline and last-break time stay as they were.
C29_IntervalChangeOnly ==
    [][(/\ op' = "AccessMateApp.fatigueSessionEffect"
        /\ obs.cameraActive /\ obs'.cameraActive
        /\ obs'.breakSetting # obs.breakSetting)
          => fat' = [fat EXCEPT !.breakInterval = obs'.breakSetting * 60 * 1000]]_vars

\* C30: with control active and paused, an open palm held in front of the
\* camera for the cooldown and the hold time (1.2 s of frames at most) leads to
\* control being resumed.
C30_PalmResumes ==
    (store.isActive /\ store.isPaused /\ now + 1200 <= PauseHorizon) ~> ~store.isPaused

\* The held open palm has fired and paused control.
PalmPaused ==
    /\ op = "handleHandResults"
    /\ ret = "openPalm"
    /\ store.isPaused

\* C31: getFatigueState() called right after startSession(), before any eye,
\* mouth or head input, reports score 0, level fresh and no break due.
C31_FreshAfterStart ==
    [][(op = "FatigueDetector.startSession" /\ op' = "FatigueDetector.getFatigueState"
        /\ fat.breakInterval > 0)
          => /\ ret'.score = 0
             /\ ret'.level = "fresh"
             /\ ~ret'.shouldTakeBreak]_vars

\* C32: during one uninterrupted mouth-open episode (every processMouthState
\* call with the mouth open and the ratio above 0.6) yawnCount is raised at
\* most once (obs.yawnsInRun counts the raises of the episode in progress).
C32_OneYawnPerOpening == obs.yawnsInRun <= 1

\* C32, amended: during one uninterrupted mouth-open episode yawnCount is
\* raised first 2000 ms or more after the episode began and then again each
\* time more than 5000 ms have passed since the last raise, so an episode of
\* 7 s or more is counted more than once.
C32_YawnsOfOpeningSpaced ==
    (obs.wideSince # NULL /\ obs.yawnsInRun >= 1)
        => obs.lastYawn - obs.wideSince
             >= YAWN_DURATION_THRESHOLD + (obs.yawnsInRun - 1) * 5001

\* A mouth held wide open has just been counted as a yawn for the second time.
C32_Witness ==
    /\ op = "FatigueDetector.processMouthState"
    /\ obs.wideSince # NULL
    /\ obs.yawnsInRun = 2
    /\ obs.lastYawn = now

\* C33: during one continuous droop (consecutive processHeadPosition calls
\* with the head more than the threshold below the baseline) headDroopEvents
\* is raised at most once.
C33_OneEventPerDroop == obs.droopsInRun <= 1

\* C34: after reset() the blink records, yawnCount and headDroopEvents equal
\* those of a detector constructed at the reset with the same break interval
\* and fed the same calls at the same times (obs.fresh).
C34_ResetAsNew ==
    obs.wasReset =>
        /\ fat.blinkTimestamps = obs.fresh.blinkTimestamps
        /\ fat.blinkDurations = obs.fresh.blinkDurations
        /\ fat.yawnCount = obs.fresh.yawnCount
        /\ fat.headDroopEvents = obs.fresh.headDroopEvents

\* The same for the yawn count alone.
ResetAsNewYawns == obs.wasReset => fat.yawnCount = obs.fresh.yawnCount

\* C35: with the default thresholds the EyeState of a frame has at most one of
\* isWinkingLeft and isWinkingRight true, and neither when isBothClosed is
\* true; and after a detectIntentionalWink call at most one of the two wink
\* start times is pending.
C35_OneWinkAtATime ==
    op = "EyeGestureDetector.detectIntentionalWink" =>
        /\ ~(obs.eyeState.isWinkingLeft /\ obs.eyeState.isWinkingRight)
        /\ obs.eyeState.isBothClosed
             => ~obs.eyeState.isWinkingLeft /\ ~obs.eyeState.isWinkingRight
        /\ eye.leftWinkStartTime = NULL \/ eye.rightWinkStartTime = NULL

\* A frame with both smoothed EARs below 0.18 and more than 0.08 apart: both
\* eyes count as closed and no wink is reported.
C35_Witness ==
    /\ op = "EyeGestureDetector.detectIntentionalWink"
    /\ eye.WINK_THRESHOLD = WINK_THRESHOLD /\ eye.OPEN_THRESHOLD = OPEN_THRESHOLD
    /\ obs.eyeState.isBothClosed
    /\ Abs(obs.eyeState.leftEAR - obs.eyeState.rightEAR) > 60 * WINK_DIFF_THRESHOLD
    /\ ~obs.eyeState.isWinkingLeft /\ ~obs.eyeState.isWinkingRight

\* A right wink has begun on the poll after the one that began a left wink.
C35_WitnessPending ==
    /\ op = "EyeGestureDetector.detectIntentionalWink"
    /\ eye.rightWinkStartTime = now
    /\ obs.eyeState.isWinkingRight
    /\ now > StartTime

\* C36: a face frame with a face appends exactly one EAR sample per eye to the
\* smoothing history of the eye detector, in every control mode.
C36_OneSamplePerFrame ==
    [][(op' = "handleFaceResults" /\ obs'.latestFace # NoLandmarks)
          => /\ eye'.leftEARHistory
                  = Pushed(eye.leftEARHistory,
                           calculateEAR(obs'.latestFace, LEFT_EYE_EAR_POINTS))
             /\ eye'.rightEARHistory
                  = Pushed(eye.rightEARHistory,
                           calculateEAR(obs'.latestFace, RIGHT_EYE_EAR_POINTS))]_vars

\* C37: while control is not active or is paused, a face frame or a hand frame
\* leaves the cursor, the click and gesture counters and the pause, keyboard
\* and quick-action state as they were.
C37_NoControlWhileInactive ==
    [][(op' \in {"handleFaceResults", "handleHandResults"}
        /\ (~store.isActive \/ store.isPaused))
          => /\ store'.cursor = store.cursor
             /\ store'.stats = store.stats
             /\ store'.isPaused = store.isPaused
             /\ store'.showKeyboard = store.showKeyboard
             /\ store'.showQuickActions = store.showQuickActions]_vars


\* C38: a gesture fires from a hand frame only when it has been classified on
\* every gesture poll of the last MIN_HOLD_TIME (the recognizer's hold time),
\* that is since it came back into view after a frame without a hand or
\* without gesture polling.
C38_GapRestartsHold ==
    (op = "handleHandResults" /\ ret # "null") => now - obs.seenSince >= gr.MIN_HOLD_TIME

\* The session history after one entry stamped t has been added to h: at most
\* SESSION_HISTORY_LIMIT entries, the newest last, the older ones kept in order.
OneEntryAdded(h, h2, t) ==
    LET n == Len(h2)
        dropped == Len(h) + 1 - n
    IN  /\ n = Min(SESSION_HISTORY_LIMIT, Len(h) + 1)
        /\ h2[n].timestamp = t
        /\ \A i \in 1..(n - 1) : h2[i] = h[i + dropped]

\* C39: endSession() of either store changes nothing when no session is open,
\* and leaves no session open, so a second endSession() changes nothing; with a
\* session open, useAppStore.endSession() adds exactly one entry to the session
\* history (the most recent 100 are kept) and useAccessMateStore.endSession()
\* adds the time elapsed since startSession() to totalUsageTime.
C39_EndSessionOnce ==
    [][/\ op' = "useAppStore.endSession" =>
            /\ store'.app.sessionStartTime = NULL
            /\ IF store.app.sessionStartTime = NULL
               THEN store' = store
               ELSE OneEntryAdded(store.app.sessionHistory, store'.app.sessionHistory, now)
       /\ op' \in {"endSession", "stopCamera"} =>
            /\ store'.stats.sessionStartTime = NULL
            /\ store'.app = store.app
            /\ IF store.stats.sessionStartTime = NULL
               THEN store'.stats = store.stats /\ (op' = "endSession" => store' = store)
               ELSE store'.stats.totalUsageTime
                      = store.stats.totalUsageTime + (now - store.stats.sessionStartTime)]_vars

\* A second useAppStore.endSession() after a session that filled the history
\* to its limit and pushed the oldest stored entry out.
C39_Witness ==
    /\ op = "useAppStore.endSession"
    /\ obs.idleEnd
    /\ obs.appSessions = 1
    /\ Len(store.app.sessionHistory) = SESSION_HISTORY_LIMIT
    /\ store.app.sessionHistory[1].timestamp = 2
    /\ store.app.sessionHistory[SESSION_HISTORY_LIMIT].timestamp >= StartTime

\* A camera session of 30 s has been added to the usage time.
C39_WitnessUsage ==
    /\ op = "stopCamera"
    /\ obs.storeSessions = 1
    /\ store.stats.sessionStartTime = NULL
    /\ store.stats.totalUsageTime = 30000

=============================================================================
